---- MODULE Spec2Model ----
(***************************************************************************)
(* Verification model of the interpretive core of signal_analyst:          *)
(*   core/inference.py        InferenceEngine                              *)
(*   core/change_detector.py  ChangeDetector                               *)
(*   agent/cohort.py          compute_cohort_norms, find_outliers,         *)
(*                            normalize_job_result, build_cohort_matrix,   *)
(*                            confirm_cohort, start_cohort_analysis        *)
(*   agent/cohort_endpoints.py cohort_analyze, cohort_results              *)
(*   agent/micro_analyst.py   _run_analysis_task, startup_event,           *)
(*                            get_job_status                               *)
(*   utils/persistence.py     save_job, save_cohort, get_cohort            *)
(*   utils/llm_client.py      LLMClient._build_sectioned_report            *)
(* Python values are modelled as tagged records, dicts as functions whose  *)
(* DOMAIN is the set of keys present, str as TLA+ strings (character       *)
(* sequences), float as exact dyadic rationals with IEEE-754 rounding.     *)
(***************************************************************************)
EXTENDS Integers, Sequences, FiniteSets, TLC

VARIABLES
    pc,          \* position of the run that is being modelled
    raw,         \* raw profile handed to InferenceEngine.infer
    inferred,    \* InferredProfile returned by infer
    render,      \* arguments of _build_sectioned_report besides the profile
    report,      \* markdown returned by _build_sectioned_report
    dcall,       \* arguments of the ChangeDetector.compute_delta calls
    delta,       \* DeltaReports returned by compute_delta
    targets,     \* list of TargetSignals of a cohort
    norms,       \* CohortNorms returned by compute_cohort_norms
    outliers,    \* list of CohortOutlier returned by find_outliers
    runs,        \* analysis runs in progress: arguments, position and locals of each
    store,       \* rows of the reports table, in insertion order
    jobs,        \* the server's in-memory jobs dict: job id -> job record
    jobs_db,     \* rows of the jobs table, by id
    cohorts,     \* rows of the cohorts table, by id
    calls        \* requests in progress: handler, position and locals of each

vars == <<pc, raw, inferred, render, report, dcall, delta, targets, norms, outliers, runs, store,
          jobs, jobs_db, cohorts, calls>>

-----------------------------------------------------------------------------
(* Bounds of the model.                                                    *)

MaxOverrides == 1
MaxIssues == 2
MaxEvidence == 3
MaxTargets == 4
MaxJobs == 2

-----------------------------------------------------------------------------
(* Python values.                                                          *)

PyNone == [t |-> "none"]
Str(s) == [t |-> "str", v |-> s]
List(l) == [t |-> "list", v |-> l]
Dict(d) == [t |-> "dict", v |-> d]
EmptyDict == Dict([k \in {} |-> PyNone])

\* an empty table, an empty dict keyed by id
NoRows == [k \in {} |-> PyNone]

Truthy(x) ==
    CASE x.t = "none" -> FALSE
      [] x.t = "str"  -> x.v # ""
      [] x.t = "list" -> Len(x.v) > 0
      [] x.t = "dict" -> DOMAIN x.v # {}

\* d.get(k, default) and d.get(k)
GetOr(d, k, default) == IF k \in DOMAIN d.v THEN d.v[k] ELSE default
Get(d, k) == GetOr(d, k, PyNone)

\* x or y
Or(x, y) == IF Truthy(x) THEN x ELSE y

\* x == "literal"
IsStr(x, s) == x.t = "str" /\ x.v = s

-----------------------------------------------------------------------------
(* str operations.                                                         *)

LowerChars == "abcdefghijklmnopqrstuvwxyz"
UpperChars == "ABCDEFGHIJKLMNOPQRSTUVWXYZ"

CharAt(s, i) == SubSeq(s, i, i)

LowerChar(c) ==
    IF \E i \in 1..26 : CharAt(UpperChars, i) = c
    THEN CharAt(LowerChars, CHOOSE i \in 1..26 : CharAt(UpperChars, i) = c)
    ELSE c

UpperChar(c) ==
    IF \E i \in 1..26 : CharAt(LowerChars, i) = c
    THEN CharAt(UpperChars, CHOOSE i \in 1..26 : CharAt(LowerChars, i) = c)
    ELSE c

RECURSIVE Lower(_)
Lower(s) ==
    IF Len(s) = 0 THEN ""
    ELSE IF Len(s) = 1 THEN LowerChar(s)
    ELSE LET h == Len(s) \div 2
         IN  Lower(SubSeq(s, 1, h)) \o Lower(SubSeq(s, h + 1, Len(s)))

RECURSIVE Upper(_)
Upper(s) ==
    IF Len(s) = 0 THEN ""
    ELSE IF Len(s) = 1 THEN UpperChar(s)
    ELSE LET h == Len(s) \div 2
         IN  Upper(SubSeq(s, 1, h)) \o Upper(SubSeq(s, h + 1, Len(s)))

\* p in s
Contains(s, p) ==
    \E i \in 1..(Len(s) - Len(p) + 1) : SubSeq(s, i, i + Len(p) - 1) = p

\* sep.join(items)
RECURSIVE Join(_, _)
Join(items, sep) ==
    IF Len(items) = 0 THEN ""
    ELSE IF Len(items) = 1 THEN items[1]
    ELSE items[1] \o sep \o Join(Tail(items), sep)

\* items[:n]
Take(items, n) == SubSeq(items, 1, IF Len(items) < n THEN Len(items) ELSE n)

\* [s for s in items if s]
RECURSIVE TruthyStrs(_)
TruthyStrs(items) ==
    IF Len(items) = 0 THEN <<>>
    ELSE IF Truthy(Head(items)) THEN <<Head(items).v>> \o TruthyStrs(Tail(items))
    ELSE TruthyStrs(Tail(items))

-----------------------------------------------------------------------------
(* core/inference.py                                                       *)

Sections == <<"web", "seo", "tech_stack", "reviews", "social", "hiring", "ads">>
SectionKeys == {Sections[i] : i \in 1..Len(Sections)}

SignalInference(section, data_status, confidence, plausible_causes, strategic_implication, risk_note) ==
    [section |-> section, data_status |-> data_status, confidence |-> confidence,
     plausible_causes |-> plausible_causes,
     strategic_implication |-> strategic_implication, risk_note |-> risk_note]

_infer_web(data) ==
    LET title == Get(Or(Get(data, "meta"), EmptyDict), "title")
        desc  == Get(Or(Get(data, "meta"), EmptyDict), "description")
        error == Get(data, "error")
    IN  IF Truthy(error) \/ (~Truthy(title) /\ ~Truthy(desc))
        THEN SignalInference("Web Presence", "absent", "medium",
                 <<"WAF Blocking", "Single-Page App (SPA) unrendered", "Private / Intranet site">>,
                 "The organization maintains a shielded digital perimeter. "
                 \o "This suggests a strategy that prioritizes security or privacy over "
                 \o "broad public discoverability, common in specialized B2B or defense sectors.",
                 Str("Opacity prevents verification of public messaging alignment."))
        ELSE SignalInference("Web Presence", "present", "high",
                 <<"Standard public indexing">>,
                 "The organization actively manages its digital front door, positioning itself via '"
                 \o Or(title, Str("Untitled")).v \o "'. "
                 \o "This indicates a reliance on inbound web traffic as a credibility signal.",
                 PyNone)


\* _infer_seo that concatenates the heading issues before the meta issues
_infer_seo_heading_first(data) ==
    LET error  == Get(data, "error")
        issues == Or(Get(data, "heading_issues"), List(<<>>)).v
                  \o Or(Get(data, "meta_issues"), List(<<>>)).v
    IN  IF Truthy(error)
        THEN SignalInference("SEO Diagnostics", "error", "low",
                 <<"Anti-bot defenses", "Malformed HTML structure">>,
                 "Technical barriers prevent standard SEO auditing. "
                 \o "Strategically, this implies organic search is not a primary growth lever, "
                 \o "or the brand relies on direct traffic and reputation.",
                 PyNone)
        ELSE IF Len(issues) = 0
        THEN SignalInference("SEO Diagnostics", "present", "high",
                 <<"Mature marketing ops", "Technical SEO investment">>,
                 "Zero structural SEO issues detected. This signals a disciplined, "
                 \o "technically mature marketing operation that treats discoverability as a core asset.",
                 PyNone)
        ELSE SignalInference("SEO Diagnostics", "partial", "high",
                 <<"Legacy CMS", "Neglected maintenance", "Brand-focused vs Search-focused">>,
                 "Detected " \o ToString(Len(issues))
                 \o " structural gaps between the brand's intent and its technical reality. "
                 \o "This friction suggests marketing execution lags behind strategy, potentially bleeding organic traffic.",
                 Str("Primary issue: " \o (IF Len(issues) > 0 THEN issues[1] ELSE "Unknown")))

\* _infer_seo with the issue count tested before the error flag
_infer_seo_issues_first(data) ==
    LET error  == Get(data, "error")
        issues == Or(Get(data, "meta_issues"), List(<<>>)).v
                  \o Or(Get(data, "heading_issues"), List(<<>>)).v
    IN  IF Len(issues) = 0
        THEN SignalInference("SEO Diagnostics", "present", "high",
                 <<"Mature marketing ops", "Technical SEO investment">>,
                 "Zero structural SEO issues detected. This signals a disciplined, "
                 \o "technically mature marketing operation that treats discoverability as a core asset.",
                 PyNone)
        ELSE IF Truthy(error)
        THEN SignalInference("SEO Diagnostics", "error", "low",
                 <<"Anti-bot defenses", "Malformed HTML structure">>,
                 "Technical barriers prevent standard SEO auditing. "
                 \o "Strategically, this implies organic search is not a primary growth lever, "
                 \o "or the brand relies on direct traffic and reputation.",
                 PyNone)
        ELSE SignalInference("SEO Diagnostics", "partial", "high",
                 <<"Legacy CMS", "Neglected maintenance", "Brand-focused vs Search-focused">>,
                 "Detected " \o ToString(Len(issues))
                 \o " structural gaps between the brand's intent and its technical reality. "
                 \o "This friction suggests marketing execution lags behind strategy, potentially bleeding organic traffic.",
                 Str("Primary issue: " \o (IF Len(issues) > 0 THEN issues[1] ELSE "Unknown")))

_infer_seo(data) ==
    LET error  == Get(data, "error")
        issues == Or(Get(data, "meta_issues"), List(<<>>)).v
                  \o Or(Get(data, "heading_issues"), List(<<>>)).v
    IN  IF Truthy(error)
        THEN SignalInference("SEO Diagnostics", "error", "low",
                 <<"Anti-bot defenses", "Malformed HTML structure">>,
                 "Technical barriers prevent standard SEO auditing. "
                 \o "Strategically, this implies organic search is not a primary growth lever, "
                 \o "or the brand relies on direct traffic and reputation.",
                 PyNone)
        ELSE IF Len(issues) = 0
        THEN SignalInference("SEO Diagnostics", "present", "high",
                 <<"Mature marketing ops", "Technical SEO investment">>,
                 "Zero structural SEO issues detected. This signals a disciplined, "
                 \o "technically mature marketing operation that treats discoverability as a core asset.",
                 PyNone)
        ELSE SignalInference("SEO Diagnostics", "partial", "high",
                 <<"Legacy CMS", "Neglected maintenance", "Brand-focused vs Search-focused">>,
                 "Detected " \o ToString(Len(issues))
                 \o " structural gaps between the brand's intent and its technical reality. "
                 \o "This friction suggests marketing execution lags behind strategy, potentially bleeding organic traffic.",
                 Str("Primary issue: " \o (IF Len(issues) > 0 THEN issues[1] ELSE "Unknown")))

\* _infer_tech without the promotion of legacy payloads to high confidence
_infer_tech_no_legacy_fallback(data) ==
    LET confidence0 == GetOr(data, "confidence", Str("none"))
        detected_fw == Get(data, "detected_framework")
        detected_cms == Get(data, "detected_cms")
        probable_fw == Get(data, "probable_framework")
        probable_cms == Get(data, "probable_cms")
        evidence == Or(Get(data, "evidence"), List(<<>>)).v
        absence_interp == Get(data, "absence_interpretation")
        limitations == Or(Get(data, "limitations"), List(<<>>)).v
        legacy_frameworks == Or(Get(data, "frameworks"), List(<<>>)).v
        confidence == confidence0
    IN  IF IsStr(confidence, "none")
        THEN LET reason == Or(absence_interp, Str("No identifiable framework markers found in HTML.")).v
             IN  SignalInference("Tech Stack", "absent", "none",
                     IF Len(limitations) > 0 THEN limitations
                     ELSE <<"Heavily cached", "Static HTML", "Custom">>,
                     "The technology stack is indeterminate based on public signals. " \o reason \o " "
                     \o "Infrastructure complexity and maintenance burden cannot be assessed.",
                     Str("Opacity prevents assessing maintenance risks or infrastructure capability."))
        ELSE IF IsStr(confidence, "low") \/ IsStr(confidence, "medium")
        THEN LET signals0 == TruthyStrs(<<probable_fw, probable_cms>>)
                 signals == IF Len(signals0) = 0 /\ Len(legacy_frameworks) > 0
                            THEN Take(legacy_frameworks, 2) ELSE signals0
                 ev_str == IF Len(evidence) > 0 THEN Join(Take(evidence, 2), "; ")
                           ELSE "weak signals"
             IN  SignalInference("Tech Stack", "partial", "low",
                     <<"Non-standard implementation", "Obfuscated headers">>,
                     "Traces suggest a likely reliance on "
                     \o Or(Str(Join(signals, ", ")), Str("unidentified text-based signals")).v \o ". "
                     \o "Evidence is present (" \o ev_str \o ") but lacks canonical authority. "
                     \o "This suggests a custom implementation or a headless architecture.",
                     Str("Tech identification is tentative; verify before making integration decisions."))
        ELSE LET stack0 == TruthyStrs(<<detected_fw, detected_cms>>)
                 stack == IF Len(stack0) = 0 /\ Len(legacy_frameworks) > 0
                          THEN Take(legacy_frameworks, 2) ELSE stack0
                 stack_str == Join(stack, ", ")
             IN  SignalInference("Tech Stack", "present", "high",
                     <<"Modern SaaS composability", "Standard CMS deployment">>,
                     "Confirmed core infrastructure: " \o stack_str \o ". "
                     \o "The organization relies on established, standard tooling, allowing for "
                     \o "predictable talent sourcing and easier third-party integrations.",
                     PyNone)
_infer_tech(data) ==
    LET confidence0 == GetOr(data, "confidence", Str("none"))
        detected_fw == Get(data, "detected_framework")
        detected_cms == Get(data, "detected_cms")
        probable_fw == Get(data, "probable_framework")
        probable_cms == Get(data, "probable_cms")
        evidence == Or(Get(data, "evidence"), List(<<>>)).v
        absence_interp == Get(data, "absence_interpretation")
        limitations == Or(Get(data, "limitations"), List(<<>>)).v
        legacy_frameworks == Or(Get(data, "frameworks"), List(<<>>)).v
        confidence == IF IsStr(confidence0, "none") /\ Len(legacy_frameworks) > 0
                      THEN Str("high") ELSE confidence0
    IN  IF IsStr(confidence, "none")
        THEN LET reason == Or(absence_interp, Str("No identifiable framework markers found in HTML.")).v
             IN  SignalInference("Tech Stack", "absent", "none",
                     IF Len(limitations) > 0 THEN limitations
                     ELSE <<"Heavily cached", "Static HTML", "Custom">>,
                     "The technology stack is indeterminate based on public signals. " \o reason \o " "
                     \o "Infrastructure complexity and maintenance burden cannot be assessed.",
                     Str("Opacity prevents assessing maintenance risks or infrastructure capability."))
        ELSE IF IsStr(confidence, "low") \/ IsStr(confidence, "medium")
        THEN LET signals0 == TruthyStrs(<<probable_fw, probable_cms>>)
                 signals == IF Len(signals0) = 0 /\ Len(legacy_frameworks) > 0
                            THEN Take(legacy_frameworks, 2) ELSE signals0
                 ev_str == IF Len(evidence) > 0 THEN Join(Take(evidence, 2), "; ")
                           ELSE "weak signals"
             IN  SignalInference("Tech Stack", "partial", "low",
                     <<"Non-standard implementation", "Obfuscated headers">>,
                     "Traces suggest a likely reliance on "
                     \o Or(Str(Join(signals, ", ")), Str("unidentified text-based signals")).v \o ". "
                     \o "Evidence is present (" \o ev_str \o ") but lacks canonical authority. "
                     \o "This suggests a custom implementation or a headless architecture.",
                     Str("Tech identification is tentative; verify before making integration decisions."))
        ELSE LET stack0 == TruthyStrs(<<detected_fw, detected_cms>>)
                 stack == IF Len(stack0) = 0 /\ Len(legacy_frameworks) > 0
                          THEN Take(legacy_frameworks, 2) ELSE stack0
                 stack_str == Join(stack, ", ")
             IN  SignalInference("Tech Stack", "present", "high",
                     <<"Modern SaaS composability", "Standard CMS deployment">>,
                     "Confirmed core infrastructure: " \o stack_str \o ". "
                     \o "The organization relies on established, standard tooling, allowing for "
                     \o "predictable talent sourcing and easier third-party integrations.",
                     PyNone)

_infer_reviews(data) ==
    LET error == Get(data, "error")
        summary == Get(data, "summary")
    IN  IF Truthy(error) \/ ~Truthy(summary)
        THEN SignalInference("Customer Voice", "absent", "medium",
                 <<"B2B/Enterprise model", "NDAs", "Offline transaction loop">>,
                 "The absence of public reviews strongly suggests an enterprise Sales-Led Growth (SLG) motion. "
                 \o "Trust is likely built through private relationships, RFPs, and references rather than public social proof.",
                 Str("Lack of public feedback loop creates a blind spot for market sentiment."))
        ELSE SignalInference("Customer Voice", "present", "medium",
                 <<"PLG motion", "Consumer-facing brand">>,
                 "Public sentiment is visible and active, indicating a Product-Led or Consumer-focused model. "
                 \o "The brand's reputation is decentralized and vulnerable to viral variance.",
                 PyNone)

SocialChannels == {"twitter", "linkedin", "instagram", "youtube", "tiktok"}

_infer_social(data) ==
    LET has_social == \E k \in SocialChannels : Truthy(Get(data, k))
        error == Get(data, "error")
    IN  IF ~has_social \/ Truthy(error)
        THEN SignalInference("Social Footprint", "absent", "high",
                 <<"Low-profile strategy", "Enterprise focus", "Resource constraint">>,
                 "The minimal social footprint suggests a 'Quiet Professional' posture. "
                 \o "The organization likely views social media as a liability or irrelevant channel, "
                 \o "choosing to control its narrative through owned channels (website/PR) only.",
                 PyNone)
        ELSE SignalInference("Social Footprint", "present", "high",
                 <<"Brand-building investment", "Community engagement">>,
                 "Active social channels signal a desire to own the narrative in the public square. "
                 \o "The organization invests in community engagement as a defensive moat.",
                 PyNone)

_infer_hiring(data) ==
    LET error == Get(data, "error")
        roles == Or(Get(data, "open_roles"), List(<<>>)).v
    IN  IF Truthy(error) \/ Len(roles) = 0
        THEN SignalInference("Hiring Signals", "absent", "medium",
                 <<"Low turnover", "Hiring freeze", "Outsourced recruiting", "Stealth mode">>,
                 "No visible open roles suggests a stable, low-turnover environment or a hiring freeze. "
                 \o "Growth is currently being absorbed by existing capacity or outsourced partners rather than "
                 \o "new headcount.",
                 PyNone)
        ELSE SignalInference("Hiring Signals", "present", "high",
                 <<"Expansion mode", "High churn", "New capability build">>,
                 "Visible hiring (" \o ToString(Len(roles)) \o " roles) indicates an expansion phase. "
                 \o "The organization is actively trading capital for human capacity to capture market share.",
                 PyNone)

_infer_ads(data) ==
    LET error == Get(data, "error")
        platforms == Or(Get(data, "platforms"), List(<<>>)).v
    IN  IF Truthy(error) \/ Len(platforms) = 0
        THEN SignalInference("Paid Media", "absent", "medium",
                 <<"Organic Growth", "Sales-Led Growth", "High LTV/CAC sensitivity">>,
                 "Theoretical absence of paid media signals an Organic or Sales-Led Growth model. "
                 \o "The company does not appear to pay for attention, relying instead on brand equity "
                 \o "or direct sales outreach to generate leads.",
                 PyNone)
        ELSE SignalInference("Paid Media", "present", "high",
                 <<"Performance marketing", "Demand capture">>,
                 "Active paid acquisition on " \o Join(platforms, ", ")
                 \o " suggests a machine-like 'Pay-to-Play' growth model. "
                 \o "The business economics likely support high CAC, implying strong LTV or aggressive land-grab goals.",
                 PyNone)

\* a count that takes 'partial' sections for absent ones
CountStatus_partial_as_absent(inferences, status) ==
    Cardinality({i \in 1..Len(inferences) :
                    \/ inferences[i].data_status = status
                    \/ (status = "absent" /\ inferences[i].data_status = "partial")})

\* Counter([i.data_status for i in inferences])[status]
CountStatus(inferences, status) ==
    Cardinality({i \in 1..Len(inferences) : inferences[i].data_status = status})

\* the for-loop without its breaks: the last matching section wins
RECURSIVE KeyFactorLoop_no_break(_, _, _)
KeyFactorLoop_no_break(inferences, i, key_factor) ==
    IF i > Len(inferences) THEN key_factor
    ELSE LET inf == inferences[i]
         IN  IF inf.section = "Customer Voice" /\ inf.data_status = "absent"
             THEN KeyFactorLoop_no_break(inferences, i + 1, "It relies on reputation over public validation")
             ELSE IF inf.section = "Paid Media" /\ inf.data_status = "present"
             THEN KeyFactorLoop_no_break(inferences, i + 1, "It uses capital to force-multiply growth")
             ELSE IF inf.section = "Web Presence" /\ inf.data_status = "present"
             THEN KeyFactorLoop_no_break(inferences, i + 1, "It treats its web presence as a primary asset")
             ELSE KeyFactorLoop_no_break(inferences, i + 1, key_factor)

\* the for-loop of _synthesize_posture, from position i on, with its two breaks
RECURSIVE KeyFactorLoop(_, _, _)
KeyFactorLoop(inferences, i, key_factor) ==
    IF i > Len(inferences) THEN key_factor
    ELSE LET inf == inferences[i]
         IN  IF inf.section = "Customer Voice" /\ inf.data_status = "absent"
             THEN "It relies on reputation over public validation"
             ELSE IF inf.section = "Paid Media" /\ inf.data_status = "present"
             THEN "It uses capital to force-multiply growth"
             ELSE IF inf.section = "Web Presence" /\ inf.data_status = "present"
             THEN KeyFactorLoop(inferences, i + 1, "It treats its web presence as a primary asset")
             ELSE KeyFactorLoop(inferences, i + 1, key_factor)


\* _synthesize_posture whose mixed-profile branch drops the contract phrase
_synthesize_posture_hybrid_reworded(inferences) ==
    LET present_count == CountStatus(inferences, "present")
        absent_count == CountStatus(inferences, "absent") + CountStatus(inferences, "error")
        density_profile ==
            IF absent_count > present_count * 2
            THEN "The target exhibits a 'Dark Forest' signals profile. Public data is scarce, "
                 \o "indicating an organization that operates via private relationships, legacy channels, "
                 \o "or intentional stealth."
            ELSE IF present_count > absent_count
            THEN "The target exhibits a 'Glass House' signals profile. Digital operations are highly visible, "
                 \o "suggesting a modern, transparent organization that competes in the open market."
            ELSE "A 'Hybrid' signals profile, with strong visibility in some vectors "
                 \o "and opacity in others (likely separating public brand from private operations)."
        key_factor == KeyFactorLoop(inferences, 1, "Unknown")
    IN  density_profile \o " "
        \o "Structurally, the organization appears optimized for control and stability rather than viral speed. "
        \o key_factor \o ". "
        \o "Primary vulnerability is likely the gap between internal reality and external perception."

_synthesize_posture(inferences) ==
    LET present_count == CountStatus(inferences, "present")
        absent_count == CountStatus(inferences, "absent") + CountStatus(inferences, "error")
        density_profile ==
            IF absent_count > present_count * 2
            THEN "The target exhibits a 'Dark Forest' signals profile. Public data is scarce, "
                 \o "indicating an organization that operates via private relationships, legacy channels, "
                 \o "or intentional stealth."
            ELSE IF present_count > absent_count
            THEN "The target exhibits a 'Glass House' signals profile. Digital operations are highly visible, "
                 \o "suggesting a modern, transparent organization that competes in the open market."
            ELSE "The target exhibits a 'Hybrid' signals profile, with strong visibility in some vectors "
                 \o "and opacity in others (likely separating public brand from private operations)."
        key_factor == KeyFactorLoop(inferences, 1, "Unknown")
    IN  density_profile \o " "
        \o "Structurally, the organization appears optimized for control and stability rather than viral speed. "
        \o key_factor \o ". "
        \o "Primary vulnerability is likely the gap between internal reality and external perception."

infer(raw_profile) ==
    LET web_inf == _infer_web(GetOr(raw_profile, "web", EmptyDict))
        seo_inf == _infer_seo(GetOr(raw_profile, "seo", EmptyDict))
        tech_inf == _infer_tech(GetOr(raw_profile, "tech_stack", EmptyDict))
        reviews_inf == _infer_reviews(GetOr(raw_profile, "reviews", EmptyDict))
        social_inf == _infer_social(GetOr(raw_profile, "social", EmptyDict))
        hiring_inf == _infer_hiring(GetOr(raw_profile, "hiring", EmptyDict))
        ads_inf == _infer_ads(GetOr(raw_profile, "ads", EmptyDict))
        posture == _synthesize_posture(<<web_inf, seo_inf, tech_inf, reviews_inf, social_inf, hiring_inf, ads_inf>>)
    IN  [web |-> web_inf, seo |-> seo_inf, tech_stack |-> tech_inf, reviews |-> reviews_inf,
         social |-> social_inf, hiring |-> hiring_inf, ads |-> ads_inf,
         strategic_posture |-> posture]

-----------------------------------------------------------------------------
(* Python float (IEEE-754 binary64).  A float is sign and magnitude, the   *)
(* magnitude counted in units of 2^-57 and held in two limbs of 29 bits:   *)
(* value = (hi * 2^29 + lo) / 2^57.  All floats of compute_delta's score   *)
(* (1.0, 0.2, 0.05 and their differences) are multiples of 2^-57 below 2,  *)
(* so the exact difference fits and is then rounded to 53 significant bits *)
(* (round half to even), which is what the hardware subtraction does.      *)

Limb == 2^29
Float(neg, hi, lo) == [neg |-> neg, hi |-> hi, lo |-> lo]
F0_0 == Float(FALSE, 0, 0)
F1_0 == Float(FALSE, 2^28, 0)
F0_2 == Float(FALSE, 53687091, 107374184)      \* 0x1.999999999999ap-3
F0_05 == Float(FALSE, 13421772, 429496730)     \* 0x1.999999999999ap-5
F0_8 == Float(FALSE, 214748364, 429496736)     \* 0x1.999999999999ap-1
F0_5 == Float(FALSE, 2^27, 0)

MagLess(a, b) == a.hi < b.hi \/ (a.hi = b.hi /\ a.lo < b.lo)
MagZero(a) == a.hi = 0 /\ a.lo = 0

\* a > b on floats
FGreater(a, b) ==
    IF MagZero(a) /\ MagZero(b) THEN FALSE
    ELSE IF a.neg # b.neg THEN b.neg
    ELSE IF a.neg THEN MagLess(a, b) ELSE MagLess(b, a)

MagAdd(a, b) ==
    LET lo == a.lo + b.lo
    IN  IF lo >= Limb THEN [hi |-> a.hi + b.hi + 1, lo |-> lo - Limb]
        ELSE [hi |-> a.hi + b.hi, lo |-> lo]

\* requires ~MagLess(a, b)
MagSub(a, b) ==
    IF a.lo >= b.lo THEN [hi |-> a.hi - b.hi, lo |-> a.lo - b.lo]
    ELSE [hi |-> a.hi - b.hi - 1, lo |-> a.lo + Limb - b.lo]

\* number of significant bits of the magnitude
BitLen(m) ==
    IF m.hi = 0 THEN 0
    ELSE 29 + (CHOOSE k \in 1..30 : m.hi < 2^k /\ m.hi >= 2^(k - 1))

\* round the exact magnitude to 53 significant bits, ties to even
MagRound(m) ==
    LET d == BitLen(m) - 53
    IN  IF d <= 0 THEN m
        ELSE LET r == m.lo % (2^d)
                 half == 2^(d - 1)
                 up == r > half \/ (r = half /\ (m.lo \div (2^d)) % 2 = 1)
                 lo == m.lo - r + (IF up THEN 2^d ELSE 0)
             IN  IF lo >= Limb THEN [hi |-> m.hi + 1, lo |-> lo - Limb]
                 ELSE [hi |-> m.hi, lo |-> lo]

\* a - b on floats
FSub(a, b) ==
    IF a.neg # b.neg
    THEN LET m == MagRound(MagAdd(a, b)) IN Float(a.neg, m.hi, m.lo)
    ELSE IF MagLess(a, b)
    THEN LET m == MagRound(MagSub(b, a)) IN Float(~a.neg, m.hi, m.lo)
    ELSE LET m == MagRound(MagSub(a, b)) IN Float(a.neg /\ ~(a.hi = b.hi /\ a.lo = b.lo), m.hi, m.lo)

\* max(a, b): the first argument unless the second is greater
FMax(a, b) == IF FGreater(b, a) THEN b ELSE a

-----------------------------------------------------------------------------
(* core/change_detector.py                                                 *)

SignalShift(section, shift_type, description, significance) ==
    [section |-> section, shift_type |-> shift_type, description |-> description, significance |-> significance]


\* _diff_section_status without the carve-out for a current status of "error"
_diff_section_status_no_carve_out(curr, prev, section_name) ==
    IF prev.data_status = "present" /\ curr.data_status # "present"
    THEN <<SignalShift(section_name, "breakage",
               section_name \o " signals have vanished (was present, now " \o curr.data_status \o ").",
               "high")>>
    ELSE IF prev.data_status # "present" /\ curr.data_status = "present"
    THEN <<SignalShift(section_name, "emergence",
               section_name \o " signals have emerged (previously " \o prev.data_status \o ").",
               "high")>>
    ELSE <<>>

_diff_section_status(curr, prev, section_name) ==
    IF prev.data_status = "present" /\ curr.data_status # "present"
    THEN IF curr.data_status = "error" THEN <<>>
         ELSE <<SignalShift(section_name, "breakage",
                    section_name \o " signals have vanished (was present, now " \o curr.data_status \o ").",
                    "high")>>
    ELSE IF prev.data_status # "present" /\ curr.data_status = "present"
    THEN <<SignalShift(section_name, "emergence",
               section_name \o " signals have emerged (previously " \o prev.data_status \o ").",
               "high")>>
    ELSE <<>>


\* _diff_tech that reports a present stack as changed without comparing anything
_diff_tech_always_volatile(curr, prev) ==
    LET shifts == _diff_section_status(curr, prev, "Tech Stack")
    IN  IF Len(shifts) > 0 THEN shifts
        ELSE IF curr.data_status # "present" THEN <<>>
        ELSE <<SignalShift("Tech Stack", "volatility", "Tech Stack narrative changed.", "medium")>>

_diff_tech(curr, prev) ==
    LET shifts == _diff_section_status(curr, prev, "Tech Stack")
    IN  IF Len(shifts) > 0 THEN shifts
        ELSE IF curr.data_status # "present" THEN <<>>
        ELSE <<>>

\* _diff_hiring that leaves early for a non-present current status, before the status diff
_diff_hiring_present_only(curr, prev) ==
    IF curr.data_status # "present" THEN <<>>
    ELSE _diff_section_status(curr, prev, "Hiring Signals")

_diff_hiring(curr, prev) ==
    LET shifts == _diff_section_status(curr, prev, "Hiring Signals")
    IN  IF Len(shifts) > 0 THEN shifts
        ELSE IF curr.data_status # "present" THEN <<>>
        ELSE <<>>

_diff_seo(curr, prev) == _diff_section_status(curr, prev, "SEO Diagnostics")

\* the score loop of compute_delta over shifts[i..]
RECURSIVE ScoreLoop(_, _, _)
ScoreLoop(shifts, i, score) ==
    IF i > Len(shifts) THEN score
    ELSE IF shifts[i].significance = "high" THEN ScoreLoop(shifts, i + 1, FSub(score, F0_2))
    ELSE IF shifts[i].significance = "medium" THEN ScoreLoop(shifts, i + 1, FSub(score, F0_05))
    ELSE ScoreLoop(shifts, i + 1, score)

SecondsPerDay == 86400


\* compute_delta that also diffs the reviews section
compute_delta_with_reviews(current, previous, current_date, previous_date) ==
    LET elapsed == [num |-> current_date - previous_date, den |-> SecondsPerDay]
        shifts == _diff_section_status(current.web, previous.web, "Web Presence")
                  \o _diff_seo(current.seo, previous.seo)
                  \o _diff_tech(current.tech_stack, previous.tech_stack)
                  \o _diff_section_status(current.reviews, previous.reviews, "Customer Voice")
                  \o _diff_hiring(current.hiring, previous.hiring)
                  \o _diff_section_status(current.social, previous.social, "Social Footprint")
                  \o _diff_section_status(current.ads, previous.ads, "Paid Media")
        score == ScoreLoop(shifts, 1, F1_0)
    IN  [baseline_date |-> previous_date, comparison_date |-> current_date,
         time_elapsed_days |-> elapsed, shifts |-> shifts,
         overall_stability_score |-> FMax(F0_0, score)]

compute_delta(current, previous, current_date, previous_date) ==
    LET elapsed == [num |-> current_date - previous_date, den |-> SecondsPerDay]
        shifts == _diff_section_status(current.web, previous.web, "Web Presence")
                  \o _diff_seo(current.seo, previous.seo)
                  \o _diff_tech(current.tech_stack, previous.tech_stack)
                  \o _diff_hiring(current.hiring, previous.hiring)
                  \o _diff_section_status(current.social, previous.social, "Social Footprint")
                  \o _diff_section_status(current.ads, previous.ads, "Paid Media")
        score == ScoreLoop(shifts, 1, F1_0)
    IN  [baseline_date |-> previous_date, comparison_date |-> current_date,
         time_elapsed_days |-> elapsed, shifts |-> shifts,
         overall_stability_score |-> FMax(F0_0, score)]

-----------------------------------------------------------------------------
(* core/cohort_schemas.py, agent/cohort.py                                 *)

\* TargetSignals(url=url): every other field at its default
TargetSignals(url) ==
    [url |-> url, name |-> PyNone, tech_confidence |-> "none", probable_cms |-> PyNone,
     pricing_visible |-> FALSE, docs_visible |-> FALSE, jobs_visible |-> FALSE,
     paid_ads_detected |-> FALSE, seo_hygiene |-> "unknown", social_visibility |-> "none",
     review_visibility |-> FALSE, evidence_snippets |-> <<>>, fetch_limits |-> <<>>]

\* sum(1 for t in targets if t.field == value)
CountIf(ts, field, value) == Cardinality({i \in 1..Len(ts) : ts[i][field] = value})

\* round(count / n * 100, 1), in tenths of a percent
Pct(count, n) ==
    LET q == (count * 1000) \div n
        r2 == 2 * ((count * 1000) % n)
    IN  IF r2 > n \/ (r2 = n /\ q % 2 = 1) THEN q + 1 ELSE q

compute_cohort_norms(ts) ==
    LET n == Len(ts)
        pricing_count == CountIf(ts, "pricing_visible", TRUE)
        docs_count == CountIf(ts, "docs_visible", TRUE)
    IN  IF n = 0
        THEN [total_targets |-> 0, pricing_visible_count |-> 0, docs_visible_count |-> 0,
              jobs_visible_count |-> 0, paid_ads_count |-> 0, seo_good_count |-> 0,
              social_high_count |-> 0, review_visible_count |-> 0,
              pricing_visible_pct |-> 0, docs_visible_pct |-> 0]
        ELSE [total_targets |-> n,
              pricing_visible_count |-> pricing_count,
              docs_visible_count |-> docs_count,
              jobs_visible_count |-> CountIf(ts, "jobs_visible", TRUE),
              paid_ads_count |-> CountIf(ts, "paid_ads_detected", TRUE),
              seo_good_count |-> CountIf(ts, "seo_hygiene", "good"),
              social_high_count |-> CountIf(ts, "social_visibility", "high"),
              review_visible_count |-> CountIf(ts, "review_visibility", TRUE),
              pricing_visible_pct |-> Pct(pricing_count, n),
              docs_visible_pct |-> Pct(docs_count, n)]

\* a tie counts as a majority
Majority_at_least_half(count, n) == 2 * count >= n
\* count > n / 2
Majority(count, n) == 2 * count > n

\* the body of find_outliers' loop for one target: deviations and the two counters
TargetDeviations(t, majority_pricing, majority_docs, majority_jobs, majority_social) ==
    LET pricing == IF majority_pricing /\ ~t.pricing_visible
                   THEN <<[text |-> "No visible pricing (norm: visible)", up |-> 0, down |-> 1]>>
                   ELSE IF ~majority_pricing /\ t.pricing_visible
                   THEN <<[text |-> "Visible pricing (norm: hidden)", up |-> 1, down |-> 0]>>
                   ELSE <<>>
        docs == IF majority_docs /\ ~t.docs_visible
                THEN <<[text |-> "No visible docs (norm: visible)", up |-> 0, down |-> 1]>>
                ELSE IF ~majority_docs /\ t.docs_visible
                THEN <<[text |-> "Visible docs (norm: hidden)", up |-> 1, down |-> 0]>>
                ELSE <<>>
        hiring == IF majority_jobs /\ ~t.jobs_visible
                  THEN <<[text |-> "No visible jobs (norm: visible)", up |-> 0, down |-> 1]>>
                  ELSE IF ~majority_jobs /\ t.jobs_visible
                  THEN <<[text |-> "Visible jobs (norm: hidden)", up |-> 1, down |-> 0]>>
                  ELSE <<>>
        social == IF majority_social /\ t.social_visibility = "none"
                  THEN <<[text |-> "No social presence (norm: present)", up |-> 0, down |-> 1]>>
                  ELSE IF ~majority_social /\ t.social_visibility = "high"
                  THEN <<[text |-> "High social presence (norm: low)", up |-> 1, down |-> 0]>>
                  ELSE <<>>
    IN  pricing \o docs \o hiring \o social

RECURSIVE SumField(_, _)
SumField(devs, up) ==
    IF Len(devs) = 0 THEN 0
    ELSE (IF up THEN Head(devs).up ELSE Head(devs).down) + SumField(Tail(devs), up)

\* a single deviation already makes an outlier
OutlierThresholdOne == 2 - 1
\* minimum number of deviations that makes a target an outlier
OutlierThreshold == 2
\* the guard admits cohorts of two
MinCohortSizeTwo == 3 - 1
\* minimum cohort size for outlier detection
MinCohortSize == 3

\* find_outliers' loop over targets[i..]
RECURSIVE OutlierLoop(_, _, _)
OutlierLoop(ts, ns, i) ==
    IF i > Len(ts) THEN <<>>
    ELSE LET n == ns.total_targets
             devs == TargetDeviations(ts[i],
                         Majority(ns.pricing_visible_count, n), Majority(ns.docs_visible_count, n),
                         Majority(ns.jobs_visible_count, n), Majority(ns.social_high_count, n))
             direction_up == SumField(devs, TRUE)
             direction_down == SumField(devs, FALSE)
             direction == IF direction_up > direction_down THEN "above"
                          ELSE IF direction_down > direction_up THEN "below" ELSE "mixed"
         IN  (IF Len(devs) >= OutlierThreshold
              THEN <<[url |-> ts[i].url,
                      deviations |-> [k \in 1..Len(devs) |-> devs[k].text],
                      direction |-> direction]>>
              ELSE <<>>)
             \o OutlierLoop(ts, ns, i + 1)

find_outliers(ts, ns) ==
    IF ns.total_targets < MinCohortSize THEN <<>>
    ELSE OutlierLoop(ts, ns, 1)

-----------------------------------------------------------------------------
(* utils/llm_client.py                                                     *)

section_keys == <<<<"web", "1. Web Presence">>, <<"seo", "2. SEO Diagnostics">>, <<"tech_stack", "3. Tech Stack Fingerprint">>, <<"reviews", "4. Customer Voice & Reviews">>, <<"social", "5. Social Footprint">>, <<"hiring", "6. Hiring & Org Signals">>, <<"ads", "7. Ads & Growth Motions">>>>

\* int(x) of a float held as the quotient num / den: truncation toward zero
IntTrunc(q) == IF q.num >= 0 THEN q.num \div q.den ELSE -((-q.num) \div q.den)

\* the "Strategic Trajectory" block of _build_sectioned_report
TrajectoryLines(delta_context) ==
    IF delta_context.t = "none" THEN ""
    ELSE IF Len(delta_context.v.shifts) = 0 THEN ""
    ELSE LET d == delta_context.v
             stab_score == d.overall_stability_score
             stab_label == IF FGreater(stab_score, F0_8) THEN "High"
                           ELSE IF FGreater(stab_score, F0_5) THEN "Medium" ELSE "Low"
             ShiftLine(shift) ==
                 IF shift.significance \in {"high", "medium"}
                 THEN ">     * [" \o (IF shift.significance = "high" THEN "CRITICAL" ELSE "WARNING")
                      \o "] " \o shift.section \o ": " \o shift.description \o "\n"
                 ELSE ""
         IN  "> **Strategic Trajectory (Last " \o ToString(IntTrunc(d.time_elapsed_days)) \o " Days)**\n"
             \o "> * **Stability**: " \o stab_label \o "\n"
             \o "> * **Major Shifts**:\n"
             \o Join([i \in 1..Len(d.shifts) |-> ShiftLine(d.shifts[i])], "")
             \o "\n"

\* the lines _build_sectioned_report appends for one section
SectionLines(profile_dict, key, title) ==
    IF key \notin DOMAIN profile_dict
    THEN "## " \o title \o "\n\n*No inference data available.*\n\n"
    ELSE LET inf == profile_dict[key]
             status_line == "**Status**: " \o Upper(inf.data_status)
             conf_line == "**Confidence**: " \o Upper(inf.confidence)
             causes == Join(inf.plausible_causes, ", ")
         IN  "## " \o title \o "\n\n"
             \o status_line \o " | " \o conf_line \o "\n\n"
             \o inf.strategic_implication \o "\n\n"
             \o (IF Truthy(inf.risk_note)
                 THEN "> [!NOTE]\n> **Risk Factor**: " \o inf.risk_note.v \o "\n\n" ELSE "")
             \o (IF inf.data_status # "present" /\ causes # ""
                 THEN "_Potential causes: " \o causes \o "_\n\n" ELSE "")

_build_sectioned_report(profile_dict, company_name, red_team, delta_context) ==
    TrajectoryLines(delta_context)
    \o Join([i \in 1..Len(section_keys) |-> SectionLines(profile_dict, section_keys[i][1], section_keys[i][2])], "")
    \o "## 8. Strategic Recommendations\n\n"
    \o (IF profile_dict.strategic_posture # "" THEN profile_dict.strategic_posture
        ELSE "System failed to synthesize posture.") \o "\n\n"
    \o (IF red_team
        THEN "## 9. Red Team Addendum\n\n"
             \o "- **Attack Surface**: The gaps identified above (Absent/Partial signals) are the primary entry points. "
             \o "Opacity is not security; it often masks negligence.\n"
        ELSE "")

-----------------------------------------------------------------------------
(* Inputs of InferenceEngine.infer: signal blocks as the collectors and    *)
(* the tests of the repository produce them.                               *)

ErrorOnly == Dict([error |-> Str("Timeout")])
ErrorDenied == Dict([error |-> Str("Access Denied")])

MetaIssuePool == <<"Missing meta description.", "Missing <title> tag.", "Title appears too short (<20 characters).", "Title appears too long (>70 characters).">>
HeadingIssuePool == <<"No H1 tag found.", "Multiple H1 tags found.", "No H2 tags found.", "Heading order skips a level.">>
EvidencePool == <<"Weak: 'wp-content' marker", "Weak: 'data-reactroot' marker", "Weak: 'cdn.shopify' marker", "Weak: 'gatsby' marker", "Weak: 'drupal' marker">>

WebBlocks ==
    { EmptyDict, ErrorOnly,
      Dict([meta |-> PyNone, error |-> PyNone]),
      Dict([meta |-> EmptyDict]),
      Dict([meta |-> Dict([title |-> Str("Real Corp")])]),
      Dict([meta |-> Dict([title |-> Str(""), description |-> Str("Industrial widgets")])]),
      Dict([meta |-> Dict([title |-> PyNone, description |-> PyNone])]),
      Dict([meta |-> Dict([title |-> Str("Service Not Available"), description |-> PyNone])]),
      Dict([meta |-> Dict([title |-> Str("Real Corp")]), error |-> Str("Timeout")]) }

SeoBlocks ==
    { EmptyDict, ErrorOnly,
      Dict([meta_issues |-> PyNone, heading_issues |-> PyNone, error |-> PyNone]),
      Dict([meta_issues |-> List(Take(MetaIssuePool, 1)), error |-> Str("Timeout")]) }
    \cup { Dict([meta_issues |-> List(Take(MetaIssuePool, m)), heading_issues |-> List(Take(HeadingIssuePool, h))]) : m \in 0..MaxIssues, h \in 0..MaxIssues }

TechBlocks ==
    { EmptyDict, ErrorOnly,
      Dict([confidence |-> Str("none")]),
      Dict([confidence |-> PyNone]),
      Dict([confidence |-> Str("none"), absence_interpretation |-> Str("No HTML was provided for analysis."), limitations |-> List(<<"Empty or missing HTML input.">>)]),
      Dict([confidence |-> Str("none"), absence_interpretation |-> PyNone, limitations |-> List(<<>>), evidence |-> PyNone]),
      Dict([confidence |-> Str("medium")]),
      Dict([confidence |-> Str("low"), frameworks |-> List(<<"React", "Vue", "Angular">>)]),
      Dict([confidence |-> Str("high"), detected_framework |-> Str("Next.js"), detected_cms |-> Str("Contentful")]),
      Dict([confidence |-> Str("high")]),
      Dict([frameworks |-> List(<<"React", "Vue", "Angular">>)]),
      Dict([confidence |-> Str("none"), frameworks |-> List(<<"jQuery">>)]),
      Dict([confidence |-> Str("high"), detected_framework |-> Str("Next.js"), error |-> Str("Timeout")]) }
    \cup { Dict([confidence |-> Str(c), probable_framework |-> Str("React"), probable_cms |-> PyNone, evidence |-> List(Take(EvidencePool, e))]) : c \in {"low", "medium"}, e \in 0..MaxEvidence }

ReviewsBlocks ==
    { EmptyDict, ErrorOnly,
      Dict([summary |-> PyNone, error |-> PyNone]),
      Dict([summary |-> Str("")]),
      Dict([summary |-> Str("Customers praise the support team.")]),
      Dict([summary |-> Str("Customers praise the support team."), error |-> Str("Timeout")]) }

SocialBlocks ==
    { EmptyDict, ErrorOnly,
      Dict([twitter |-> PyNone, linkedin |-> PyNone, error |-> PyNone]),
      Dict([twitter |-> Str("https://twitter.com/realcorp")]),
      Dict([tiktok |-> Str("@realcorp")]),
      Dict([linkedin |-> Str("https://linkedin.com/company/realcorp"), error |-> Str("Timeout")]) }

HiringBlocks ==
    { EmptyDict, ErrorOnly,
      Dict([open_roles |-> List(<<>>)]),
      Dict([open_roles |-> PyNone, error |-> PyNone]),
      Dict([open_roles |-> List(<<"Backend Engineer", "Account Executive">>)]),
      Dict([open_roles |-> List(<<"Backend Engineer">>), error |-> Str("Timeout")]) }

AdsBlocks ==
    { EmptyDict, ErrorOnly,
      Dict([platforms |-> List(<<>>), error |-> PyNone]),
      Dict([platforms |-> List(<<"Meta", "Google">>)]),
      Dict([platforms |-> List(<<"Meta">>), error |-> Str("Timeout")]) }

Blocks(key) ==
    CASE key = "web" -> WebBlocks
      [] key = "seo" -> SeoBlocks
      [] key = "tech_stack" -> TechBlocks
      [] key = "reviews" -> ReviewsBlocks
      [] key = "social" -> SocialBlocks
      [] key = "hiring" -> HiringBlocks
      [] key = "ads" -> AdsBlocks

\* {}: no surface key at all
ProfileMissing == EmptyDict
\* every collector returned an empty block
ProfileEmpty == Dict([k \in SectionKeys |-> EmptyDict])
\* every collector failed
ProfileError == Dict([k \in SectionKeys |-> ErrorOnly])
\* every surface carries a strong signal
ProfilePresent ==
    Dict([web |-> Dict([meta |-> Dict([title |-> Str("Real Corp")])]),
          seo |-> Dict([meta_issues |-> List(<<>>), heading_issues |-> List(<<>>)]),
          tech_stack |-> Dict([confidence |-> Str("high"), detected_framework |-> Str("Next.js"), detected_cms |-> Str("Contentful")]),
          reviews |-> Dict([summary |-> Str("Customers praise the support team.")]),
          social |-> Dict([twitter |-> Str("https://twitter.com/realcorp")]),
          hiring |-> Dict([open_roles |-> List(<<"Backend Engineer", "Account Executive">>)]),
          ads |-> Dict([platforms |-> List(<<"Meta", "Google">>)])])
\* three surfaces visible, three dark, one partial
ProfileMixed ==
    Dict([web |-> Dict([meta |-> Dict([title |-> Str("Real Corp")])]),
          seo |-> Dict([meta_issues |-> List(<<"Missing meta description.">>)]),
          tech_stack |-> Dict([confidence |-> Str("high"), detected_framework |-> Str("Next.js")]),
          social |-> Dict([twitter |-> Str("https://twitter.com/realcorp")]),
          hiring |-> ErrorOnly])

BaseProfiles == {ProfileMissing, ProfileEmpty, ProfileError, ProfilePresent, ProfileMixed}

\* marks a surface key that is left out of the raw profile
Removed == [t |-> "removed"]

AllBlocks == UNION { Blocks(k) : k \in SectionKeys } \cup {ErrorDenied}

\* the profile p with the surfaces ks replaced (or removed) as ch chooses
Override(p, ks, ch) ==
    Dict([x \in (DOMAIN p.v \cup ks) \ {k \in ks : ch[k] = Removed} |-> IF x \in ks THEN ch[x] ELSE p.v[x]])

\* profiles a previous run may have stored for the same URL
StoredProfiles == {infer(ProfilePresent), infer(ProfileError)}

DateSet == {0, 777600}

NoDelta == [t |-> "none"]
IdleInference == [t |-> "none"]

-----------------------------------------------------------------------------
(* Specification of one analysis run's interpretive step: infer, then      *)
(* change detection against a stored profile and report rendering          *)
(* (agent/micro_analyst.py, _run_analysis_task steps 4 and 5).             *)

InitInfer ==
    /\ pc = "infer_start"
    /\ \E base \in BaseProfiles, ks \in SUBSET SectionKeys :
         /\ Cardinality(ks) <= MaxOverrides
         /\ \E ch \in [ks -> AllBlocks \cup {Removed}] :
              /\ \A k \in ks : ch[k] \in Blocks(k) \cup {ErrorDenied, Removed}
              /\ raw = Override(base, ks, ch)
    /\ inferred = IdleInference
    /\ render = PyNone
    /\ report = ""
    /\ dcall = <<>>
    /\ delta = <<>>
    /\ targets = <<>>
    /\ norms = PyNone
    /\ outliers = <<>>
    /\ runs = <<>>
    /\ store = <<>>
    /\ jobs = NoRows
    /\ jobs_db = NoRows
    /\ cohorts = NoRows
    /\ calls = <<>>

Infer ==
    /\ pc = "infer_start"
    /\ inferred' = infer(raw)
    /\ pc' = "inferred"
    /\ UNCHANGED <<raw, render, report, dcall, delta, targets, norms, outliers, runs, store, jobs, jobs_db, cohorts, calls>>

\* no history: delta_context stays None
RenderFirst ==
    /\ pc = "inferred"
    /\ \E red_team \in BOOLEAN :
         /\ render' = [red_team |-> red_team, delta_context |-> NoDelta]
         /\ report' = _build_sectioned_report(inferred, "TestCorp", red_team, NoDelta)
    /\ pc' = "rendered"
    /\ UNCHANGED <<raw, inferred, dcall, delta, targets, norms, outliers, runs, store, jobs, jobs_db, cohorts, calls>>

\* a previous report exists: delta_context = compute_delta(...).model_dump()
RenderWithHistory ==
    /\ pc = "inferred"
    /\ \E red_team \in BOOLEAN, prev_profile \in StoredProfiles, now \in DateSet, prev_date \in DateSet :
         LET delta_context == Dict(compute_delta(inferred, prev_profile, now, prev_date))
         IN  /\ prev_date <= now
             /\ render' = [red_team |-> red_team, delta_context |-> delta_context]
             /\ report' = _build_sectioned_report(inferred, "TestCorp", red_team, delta_context)
    /\ pc' = "rendered"
    /\ UNCHANGED <<raw, inferred, dcall, delta, targets, norms, outliers, runs, store, jobs, jobs_db, cohorts, calls>>

NextInfer == Infer \/ RenderFirst \/ RenderWithHistory

SpecInfer == InitInfer /\ [][NextInfer]_vars

-----------------------------------------------------------------------------
(* Inputs of ChangeDetector.compute_delta: InferredProfiles as a caller    *)
(* reconstructs them from the stored report of a previous run,             *)
(* with data_status drawn from the whole status taxonomy.                  *)

StatusSet == {"present", "absent", "partial", "error"}
DiffedKeys == {"web", "seo", "tech_stack", "hiring", "social", "ads"}

SectionName(key) ==
    CASE key = "web" -> "Web Presence"
      [] key = "seo" -> "SEO Diagnostics"
      [] key = "tech_stack" -> "Tech Stack"
      [] key = "reviews" -> "Customer Voice"
      [] key = "social" -> "Social Footprint"
      [] key = "hiring" -> "Hiring Signals"
      [] key = "ads" -> "Paid Media"

\* a SignalInference with the given status; narrative selects the other fields
MkInference(key, status, narrative) ==
    IF narrative = 1
    THEN SignalInference(SectionName(key), status, "high", <<"Standard public indexing">>,
             "This indicates a reliance on inbound web traffic as a credibility signal.", PyNone)
    ELSE SignalInference(SectionName(key), status, "low", <<"Anti-bot defenses", "Malformed HTML structure">>,
             "Strategically, this implies organic search is not a primary growth lever.",
             Str("Opacity prevents verification of public messaging alignment."))

MkProfile(st, narrative) ==
    [web |-> MkInference("web", st["web"], narrative),
     seo |-> MkInference("seo", st["seo"], narrative),
     tech_stack |-> MkInference("tech_stack", st["tech_stack"], narrative),
     reviews |-> MkInference("reviews", st["reviews"], narrative),
     social |-> MkInference("social", st["social"], narrative),
     hiring |-> MkInference("hiring", st["hiring"], narrative),
     ads |-> MkInference("ads", st["ads"], narrative),
     strategic_posture |-> IF narrative = 1 THEN "The target exhibits a 'Glass House' signals profile."
                           ELSE "The target exhibits a 'Hybrid' signals profile."]

StatusesOf(profile) == [k \in SectionKeys |-> profile[k].data_status]

\* previous snapshots: one status everywhere, or the statuses infer gives for a mixed site
PreviousStatuses ==
    { [k \in SectionKeys |-> s] : s \in StatusSet }
    \cup { [k \in SectionKeys |-> IF k \in {"web", "tech_stack", "social"} THEN "present"
                                  ELSE IF k = "seo" THEN "partial" ELSE "absent"] }

DatePairs == { <<777600, 0>>, <<0, 43200>> }

\* a second call, obtained from the first by changing one aspect of its arguments
Variations == {"same", "reviews", "narrative", "dates", "web"}

NextStatus(s) ==
    CASE s = "present" -> "absent" [] s = "absent" -> "partial" [] s = "partial" -> "error" [] s = "error" -> "present"

Vary(call, how) ==
    CASE how = "same" -> call
      [] how = "reviews" ->
            [call EXCEPT !.current.reviews.data_status = NextStatus(@)]
      [] how = "narrative" ->
            [call EXCEPT !.current = MkProfile(StatusesOf(@), 2)]
      [] how = "dates" ->
            [call EXCEPT !.current_date = call.previous_date, !.previous_date = call.current_date]
      [] how = "web" ->
            [call EXCEPT !.current.web.data_status = NextStatus(@)]

InitDelta ==
    /\ pc = "delta_start"
    /\ \E prev \in PreviousStatuses, cur \in [DiffedKeys -> StatusSet], dates \in DatePairs :
         dcall = <<[current |-> MkProfile([k \in SectionKeys |-> IF k = "reviews" THEN prev[k] ELSE cur[k]], 1),
                    previous |-> MkProfile(prev, 1),
                    current_date |-> dates[1], previous_date |-> dates[2]]>>
    /\ delta = <<>>
    /\ raw = EmptyDict
    /\ inferred = IdleInference
    /\ render = PyNone
    /\ report = ""
    /\ targets = <<>>
    /\ norms = PyNone
    /\ outliers = <<>>
    /\ runs = <<>>
    /\ store = <<>>
    /\ jobs = NoRows
    /\ jobs_db = NoRows
    /\ cohorts = NoRows
    /\ calls = <<>>

\* two calls of compute_delta: the drawn one and a variation of it
ComputeDelta ==
    /\ pc = "delta_start"
    /\ \E how \in Variations :
         LET c1 == dcall[1]
             c2 == Vary(c1, how)
         IN  /\ dcall' = <<c1, c2>>
             /\ delta' = <<compute_delta(c1.current, c1.previous, c1.current_date, c1.previous_date),
                           compute_delta(c2.current, c2.previous, c2.current_date, c2.previous_date)>>
    /\ pc' = "delta_done"
    /\ UNCHANGED <<raw, inferred, render, report, targets, norms, outliers, runs, store, jobs, jobs_db, cohorts, calls>>

NextDelta == ComputeDelta

SpecDelta == InitDelta /\ [][NextDelta]_vars

-----------------------------------------------------------------------------
(* Inputs of compute_cohort_norms and find_outliers: cohorts of at most    *)
(* MaxTargets TargetSignals.  social_visibility is "high" or "none", the   *)
(* two values normalize_job_result and the placeholder produce.            *)

TargetUrl(i) == "https://peer" \o ToString(i) \o ".example.com"

SignalVectors == [pricing : BOOLEAN, docs : BOOLEAN, jobs : BOOLEAN, social : BOOLEAN]

MkTarget(i, sv) ==
    [TargetSignals(TargetUrl(i)) EXCEPT
        !.pricing_visible = sv.pricing, !.docs_visible = sv.docs, !.jobs_visible = sv.jobs,
        !.social_visibility = IF sv.social THEN "high" ELSE "none",
        !.seo_hygiene = IF sv.docs THEN "good" ELSE "unknown",
        !.review_visibility = sv.jobs, !.paid_ads_detected = sv.pricing]

InitCohort ==
    /\ pc = "cohort_start"
    /\ \E n \in 0..MaxTargets :
         \E svs \in [1..n -> SignalVectors] : targets = [i \in 1..n |-> MkTarget(i, svs[i])]
    /\ norms = PyNone
    /\ outliers = <<>>
    /\ raw = EmptyDict
    /\ inferred = IdleInference
    /\ render = PyNone
    /\ report = ""
    /\ dcall = <<>>
    /\ delta = <<>>
    /\ runs = <<>>
    /\ store = <<>>
    /\ jobs = NoRows
    /\ jobs_db = NoRows
    /\ cohorts = NoRows
    /\ calls = <<>>

ComputeNorms ==
    /\ pc = "cohort_start"
    /\ norms' = compute_cohort_norms(targets)
    /\ pc' = "norms_done"
    /\ UNCHANGED <<raw, inferred, render, report, dcall, delta, targets, outliers, runs, store, jobs, jobs_db, cohorts, calls>>

FindOutliers ==
    /\ pc = "norms_done"
    /\ outliers' = find_outliers(targets, norms)
    /\ pc' = "outliers_done"
    /\ UNCHANGED <<raw, inferred, render, report, dcall, delta, targets, norms, runs, store, jobs, jobs_db, cohorts, calls>>

NextCohort == ComputeNorms \/ FindOutliers

SpecCohort == InitCohort /\ [][NextCohort]_vars

-----------------------------------------------------------------------------
(* Properties of InferenceEngine.infer and the rendered report (SpecInfer) *)

InferDone == pc \in {"inferred", "rendered"}

\* C1: for every raw profile, infer returns a profile whose seven sections
\* each have data_status in {present, absent, partial, error} and a non-empty
\* strategic_implication, and whose strategic_posture is non-empty and
\* contains the literal substring 'The target exhibits'.
C1_Totality ==
    InferDone =>
        /\ \A k \in SectionKeys :
              /\ inferred[k].data_status \in StatusSet
              /\ Len(inferred[k].strategic_implication) > 0
        /\ Len(inferred.strategic_posture) > 0
        /\ Contains(inferred.strategic_posture, "The target exhibits")

\* infer has run on a profile that mixes visible, partial, dark and missing
\* surfaces (the 'Hybrid' posture) and on which no key factor applies
C1_Witness ==
    /\ pc = "inferred"
    /\ Contains(inferred.strategic_posture, "'Hybrid'")
    /\ \E k \in SectionKeys : k \notin DOMAIN raw.v
    /\ \E k \in SectionKeys : inferred[k].data_status = "partial"

\* C2: for every surface whose key is missing from the raw profile (the
\* empty profile included), the corresponding section's data_status is
\* 'absent'.
C2_MissingIsAbsent ==
    InferDone =>
        \A k \in SectionKeys : k \notin DOMAIN raw.v => inferred[k].data_status = "absent"

\* the raw block of surface k is exactly {"error": X} with X a non-empty string
IsErrorOnly(k) ==
    /\ k \in DOMAIN raw.v
    /\ DOMAIN raw.v[k].v = {"error"}
    /\ raw.v[k].v.error.t = "str"
    /\ raw.v[k].v.error.v # ""

\* C3: a surface whose raw block is exactly {"error": X}, X a non-empty
\* string, is classified 'absent' for web, tech_stack, reviews, social,
\* hiring and ads, and 'error' for seo.
C3_ErrorOnlyStatus ==
    InferDone =>
        \A k \in SectionKeys :
            IsErrorOnly(k) => inferred[k].data_status = (IF k = "seo" THEN "error" ELSE "absent")

\* infer has run on a profile in which every surface is an error-only block,
\* with two different error strings
C3_Witness ==
    /\ pc = "inferred"
    /\ \A k \in SectionKeys : IsErrorOnly(k)
    /\ \E k \in SectionKeys \ {"seo"} : raw.v[k].v.error.v # raw.v["seo"].v.error.v
    /\ inferred.seo.data_status = "error"
    /\ inferred.tech_stack.data_status = "absent"

ForbiddenPhrases == {"not available", "no data found"}

\* C4: for every raw profile, the report rendered by _build_sectioned_report
\* from infer's output contains neither 'not available' nor 'no data found'
\* (case-insensitive), whatever strings the input supplies for interpolated
\* fields.
C4_NoForbiddenPhrase ==
    pc = "rendered" => \A phrase \in ForbiddenPhrases : ~Contains(Lower(report), phrase)

-----------------------------------------------------------------------------
(* Properties of ChangeDetector.compute_delta (SpecDelta)                  *)

DeltaDone == pc = "delta_done"
Calls == IF DeltaDone THEN {1, 2} ELSE {}

\* the shifts of a report that belong to one section
ShiftsOf(r, key) == SelectSeq(r.shifts, LAMBDA sh : sh.section = SectionName(key))

\* C5: compute_delta of a profile against itself, for any two timestamps,
\* returns no shifts and an overall_stability_score of exactly 1.0.
C5_DeltaIdempotence ==
    \A i \in Calls :
        dcall[i].current = dcall[i].previous
            => /\ delta[i].shifts = <<>>
               /\ delta[i].overall_stability_score = F1_0

\* a profile with present sections was compared with itself, at two
\* different timestamps
C5_Witness ==
    /\ DeltaDone
    /\ dcall[1].current = dcall[1].previous
    /\ dcall[1].current.tech_stack.data_status = "present"
    /\ dcall[1].current_date # dcall[1].previous_date
    /\ delta[1].overall_stability_score = F1_0

\* C6: for each of the six diffed sections, present -> error emits no shift
\* for that section, and present -> absent emits exactly one 'breakage'
\* shift of significance 'high' for that section.
C6_ErrorSuppression ==
    \A i \in Calls : \A k \in DiffedKeys :
        LET prev == dcall[i].previous[k].data_status
            curr == dcall[i].current[k].data_status
            mine == ShiftsOf(delta[i], k)
        IN  /\ (prev = "present" /\ curr = "error") => Len(mine) = 0
            /\ (prev = "present" /\ curr = "absent")
                   => /\ Len(mine) = 1
                      /\ mine[1].shift_type = "breakage"
                      /\ mine[1].significance = "high"

\* one call in which a present section errored and another went absent
C6_Witness ==
    /\ DeltaDone
    /\ dcall[1].previous.web.data_status = "present"
    /\ dcall[1].current.web.data_status = "error"
    /\ dcall[1].previous.ads.data_status = "present"
    /\ dcall[1].current.ads.data_status = "absent"
    /\ Len(delta[1].shifts) = 1

\* the two calls agree on the twelve statuses of the six diffed sections
AgreeOnDiffed ==
    \A k \in DiffedKeys :
        /\ dcall[1].current[k].data_status = dcall[2].current[k].data_status
        /\ dcall[1].previous[k].data_status = dcall[2].previous[k].data_status

\* current and previous of call i differ in the reviews status and in no
\* diffed status
OnlyReviewsChanged(i) ==
    /\ dcall[i].current.reviews.data_status # dcall[i].previous.reviews.data_status
    /\ \A k \in DiffedKeys : dcall[i].current[k].data_status = dcall[i].previous[k].data_status

CountSignificance(r, sig) == Cardinality({j \in 1..Len(r.shifts) : r.shifts[j].significance = sig})

\* n * a on floats, n a small natural: the exact product rounded once
RECURSIVE MagTimes(_, _)
MagTimes(a, n) == IF n = 0 THEN [hi |-> 0, lo |-> 0] ELSE MagAdd(MagTimes(a, n - 1), a)
FTimes(a, n) == LET m == MagRound(MagTimes(a, n)) IN Float(a.neg /\ n # 0, m.hi, m.lo)

\* max(0, 1 - 0.2*H - 0.05*M) as a float expression
ClosedFormScore(H, M) == FMax(F0_0, FSub(FSub(F1_0, FTimes(F0_2, H)), FTimes(F0_05, M)))

\* |a - b| is at most 2^-50: equal up to the rounding of a few float operations
FNear(a, b) == LET d == FSub(a, b) IN d.hi = 0 /\ d.lo <= 2^7

\* C8: overall_stability_score equals max(0, 1 - 0.2*H - 0.05*M), H and M
\* the numbers of 'high' and 'medium' shifts of the report; hence it lies in
\* [0, 1] and is exactly 0.0 whenever H >= 5.
C8_StabilityScore ==
    \A i \in Calls :
        LET H == CountSignificance(delta[i], "high")
            M == CountSignificance(delta[i], "medium")
            score == delta[i].overall_stability_score
        IN  /\ FNear(score, ClosedFormScore(H, M))
            /\ ~score.neg /\ ~FGreater(score, F1_0)
            /\ H >= 5 => score = F0_0

-----------------------------------------------------------------------------
(* Properties of find_outliers (SpecCohort)                                *)

TrackedSignals == {"pricing", "docs", "jobs", "social"}

\* whether target t shows a tracked signal
Shows(t, sig) ==
    CASE sig = "pricing" -> t.pricing_visible
      [] sig = "docs" -> t.docs_visible
      [] sig = "jobs" -> t.jobs_visible
      [] sig = "social" -> t.social_visibility = "high"

\* strictly more than half of the cohort shows the signal
MajorityShows(sig) == 2 * Cardinality({i \in 1..Len(targets) : Shows(targets[i], sig)}) > Len(targets)

\* number of tracked signals on which t contradicts the majority flag
DeviationCount(t) == Cardinality({sig \in TrackedSignals : Shows(t, sig) # MajorityShows(sig)})

\* C9: with norms computed from the same targets and total_targets >= 3,
\* find_outliers returns one CohortOutlier for exactly the targets that
\* contradict the majority flag on at least 2 of the 4 tracked signals, in
\* target order; a target with 0 or 1 deviation is never returned.
C9_OutlierThreshold ==
    (pc = "outliers_done" /\ Len(targets) >= 3) =>
        LET expected == SelectSeq(targets, LAMBDA t : DeviationCount(t) >= 2)
        IN  /\ Len(outliers) = Len(expected)
            /\ \A j \in 1..Len(outliers) :
                  /\ outliers[j].url = expected[j].url
                  /\ Len(outliers[j].deviations) = DeviationCount(expected[j])
            /\ \A i \in 1..Len(targets) :
                  DeviationCount(targets[i]) <= 1
                      => \A j \in 1..Len(outliers) : outliers[j].url # targets[i].url

\* a cohort in which one target deviates on exactly one signal, a later one
\* on at least two, and only the latter is returned
C9_Witness ==
    /\ pc = "outliers_done"
    /\ Len(targets) >= 3
    /\ Len(outliers) = 1
    /\ \E i \in 1..Len(targets) : DeviationCount(targets[i]) = 1
    /\ \E i \in 2..Len(targets) : DeviationCount(targets[i]) >= 2 /\ outliers[1].url = targets[i].url

\* C10: find_outliers returns the empty list for every cohort whose
\* norms.total_targets is less than 3, whatever the targets' values.
C10_SmallCohortGuard ==
    (pc = "outliers_done" /\ norms.total_targets < 3) => outliers = <<>>

\* a cohort of two in which a target contradicts the majority flag on all
\* four signals, and nothing is returned
C10_Witness ==
    /\ pc = "outliers_done"
    /\ norms.total_targets = 2
    /\ \E i \in 1..Len(targets) : DeviationCount(targets[i]) = 4
    /\ outliers = <<>>

\* the deviation texts find_outliers records for a tracked signal
UpText(sig) ==
    CASE sig = "pricing" -> "Visible pricing (norm: hidden)"
      [] sig = "docs" -> "Visible docs (norm: hidden)"
      [] sig = "jobs" -> "Visible jobs (norm: hidden)"
      [] sig = "social" -> "High social presence (norm: low)"

DownText(sig) ==
    CASE sig = "pricing" -> "No visible pricing (norm: visible)"
      [] sig = "docs" -> "No visible docs (norm: visible)"
      [] sig = "jobs" -> "No visible jobs (norm: visible)"
      [] sig = "social" -> "No social presence (norm: present)"

InSeq(seq, x) == \E j \in 1..Len(seq) : seq[j] = x

ShowCount(sig) == Cardinality({i \in 1..Len(targets) : Shows(targets[i], sig)})

\* exactly half of the cohort shows the signal
Tie(sig) == 2 * ShowCount(sig) = Len(targets)

\* the target an outlier was built from (urls are unique in a cohort)
TargetOf(o) == targets[CHOOSE i \in 1..Len(targets) : targets[i].url = o.url]

\* C11: for each tracked signal the majority flag is count > n/2, strictly:
\* a returned target carries the 'norm: visible' deviation iff strictly more
\* than half show the signal and it does not, and the 'norm: hidden'
\* deviation iff at most half show the signal and it does.  On an exact tie
\* the targets that show the signal deviate (upwards) and those lacking it
\* do not; direction is 'above' iff upward deviations outnumber downward.
C11_StrictMajority ==
    (pc = "outliers_done" /\ Len(targets) >= 3) =>
        \A j \in 1..Len(outliers) :
            LET o == outliers[j]
                t == TargetOf(o)
                ups == {sig \in TrackedSignals : InSeq(o.deviations, UpText(sig))}
                downs == {sig \in TrackedSignals : InSeq(o.deviations, DownText(sig))}
            IN  /\ \A sig \in TrackedSignals :
                      /\ sig \in downs <=> (2 * ShowCount(sig) > Len(targets) /\ ~Shows(t, sig))
                      /\ sig \in ups <=> (2 * ShowCount(sig) <= Len(targets) /\ Shows(t, sig))
                      /\ Tie(sig) => /\ sig \notin downs
                                     /\ sig \in ups <=> Shows(t, sig)
                /\ o.direction = "above" <=> Cardinality(ups) > Cardinality(downs)
                /\ o.direction = "below" <=> Cardinality(downs) > Cardinality(ups)

\* a cohort of four in which exactly two targets show pricing: a returned
\* target that shows it carries the upward pricing deviation, and a returned
\* target that lacks it carries no pricing deviation
C11_Witness ==
    /\ pc = "outliers_done"
    /\ Len(targets) = 4
    /\ Tie("pricing")
    /\ \E j \in 1..Len(outliers) :
          /\ TargetOf(outliers[j]).pricing_visible
          /\ InSeq(outliers[j].deviations, UpText("pricing"))
          /\ outliers[j].direction = "above"
    /\ \E j \in 1..Len(outliers) :
          /\ ~TargetOf(outliers[j]).pricing_visible
          /\ ~InSeq(outliers[j].deviations, UpText("pricing"))
          /\ ~InSeq(outliers[j].deviations, DownText("pricing"))

-----------------------------------------------------------------------------
(* Specification of concurrent analysis runs over one reports table        *)
(* (agent/micro_analyst.py: the background _run_analysis_task and the      *)
(* synchronous analyze endpoint; utils/persistence.py).  Each run executes *)
(* its statements in program order; runs interleave statement by           *)
(* statement.                                                              *)

\* the statements of _run_analysis_task that touch the profile, the history
\* and the reports table, in program order
_run_analysis_task_persist_first == <<"infer", "save_report", "get_latest_reports", "compute_delta", "synthesize_report">>
_run_analysis_task_steps == <<"infer", "get_latest_reports", "compute_delta", "synthesize_report", "save_report">>

\* the same statements of analyze
analyze_steps == <<"infer", "get_latest_reports", "compute_delta", "synthesize_report", "save_report">>

Entries == {"_run_analysis_task", "analyze"}
StepsOf(entry) == IF entry = "analyze" THEN analyze_steps ELSE _run_analysis_task_steps

CompanyUrls == {"https://realcorp.example.com", "https://othercorp.example.com"}
RunProfiles == {ProfilePresent, ProfileError}

\* job_id = str(uuid4()): distinct for distinct runs
JobId(j) == "job-" \o ToString(j)

\* the statement run j executes next
Stmt(j) ==
    LET steps == StepsOf(runs[j].entry)
    IN  IF runs[j].pos <= Len(steps) THEN steps[runs[j].pos] ELSE "return"

\* datetime.utcnow() as a logical clock: the number of statements executed so far
RECURSIVE StepsDone(_, _)
StepsDone(rs, j) == IF j > Len(rs) THEN 0 ELSE (rs[j].pos - 1) + StepsDone(rs, j + 1)
utcnow == StepsDone(runs, 1)

\* INSERT INTO reports: one row per saved report
save_report(db, job_id, company_url, profile, created_at) ==
    Append(db, [id |-> job_id, created_at |-> created_at, company_url |-> company_url, profile |-> profile])

\* the rows stored for company_url, most recent first, at most limit of them
get_latest_reports(db, company_url, limit) ==
    LET mine == SelectSeq(db, LAMBDA row : row.company_url = company_url)
        n == Len(mine)
    IN  [i \in 1..(IF n < limit THEN n ELSE limit) |-> mine[n + 1 - i]]

InitRun ==
    /\ pc = "serving"
    /\ \E n \in 1..MaxJobs :
         \E entry \in [1..n -> Entries], url \in [1..n -> CompanyUrls], rp \in [1..n -> RunProfiles] :
             runs = [j \in 1..n |->
                        [entry |-> entry[j], company_url |-> url[j], raw_profile |-> rp[j], pos |-> 1,
                         inferred_profile |-> IdleInference, history |-> PyNone,
                         previous_id |-> PyNone, delta_context |-> NoDelta, report_done |-> FALSE]]
    /\ store = <<>>
    /\ raw = EmptyDict
    /\ inferred = IdleInference
    /\ render = PyNone
    /\ report = ""
    /\ dcall = <<>>
    /\ delta = <<>>
    /\ targets = <<>>
    /\ norms = PyNone
    /\ outliers = <<>>
    /\ jobs = NoRows
    /\ jobs_db = NoRows
    /\ cohorts = NoRows
    /\ calls = <<>>

RunUnchanged ==
    UNCHANGED <<pc, raw, inferred, render, report, dcall, delta, targets, norms, outliers,
                jobs, jobs_db, cohorts, calls>>

\* inferred_profile = inference_engine.infer(raw_profile_dict)
RunInfer(j) ==
    /\ Stmt(j) = "infer"
    /\ runs' = [runs EXCEPT ![j].inferred_profile = infer(runs[j].raw_profile), ![j].pos = @ + 1]
    /\ UNCHANGED store
    /\ RunUnchanged

\* history = get_latest_reports(req.company_url, limit=1)
RunGetLatestReports(j) ==
    /\ Stmt(j) = "get_latest_reports"
    /\ runs' = [runs EXCEPT ![j].history = List(get_latest_reports(store, runs[j].company_url, 1)),
                            ![j].pos = @ + 1]
    /\ UNCHANGED store
    /\ RunUnchanged

\* if history: prev_report = history[0]; delta = compute_delta(current, previous, utcnow(), prev_date)
RunComputeDelta(j) ==
    /\ Stmt(j) = "compute_delta"
    /\ IF Truthy(runs[j].history)
       THEN LET prev_report == runs[j].history.v[1]
            IN  runs' = [runs EXCEPT
                           ![j].previous_id = Str(prev_report.id),
                           ![j].delta_context = Dict(compute_delta(runs[j].inferred_profile, prev_report.profile,
                                                                   utcnow, prev_report.created_at)),
                           ![j].pos = @ + 1]
       ELSE runs' = [runs EXCEPT ![j].pos = @ + 1]
    /\ UNCHANGED store
    /\ RunUnchanged

\* report_markdown = llm_client.synthesize_report(profile_dict, ...)
RunSynthesize(j) ==
    /\ Stmt(j) = "synthesize_report"
    /\ runs' = [runs EXCEPT ![j].report_done = TRUE, ![j].pos = @ + 1]
    /\ UNCHANGED store
    /\ RunUnchanged

\* save_report(...): the row is inserted, unless the insert fails (the error
\* is logged and swallowed) or analyze runs under pytest
RunSaveReport(j) ==
    /\ Stmt(j) = "save_report"
    /\ \E inserted \in BOOLEAN :
         store' = IF inserted
                  THEN save_report(store, JobId(j), runs[j].company_url, runs[j].inferred_profile, utcnow)
                  ELSE store
    /\ runs' = [runs EXCEPT ![j].pos = @ + 1]
    /\ RunUnchanged

NextRun ==
    \E j \in DOMAIN runs :
        \/ RunInfer(j)
        \/ RunGetLatestReports(j)
        \/ RunComputeDelta(j)
        \/ RunSynthesize(j)
        \/ RunSaveReport(j)

SpecRun == InitRun /\ [][NextRun]_vars

-----------------------------------------------------------------------------
(* Properties of the analysis runs (SpecRun)                               *)

\* the reports table holds the row of run j
Saved(j) == \E k \in 1..Len(store) : store[k].id = JobId(j)

\* C12: in every analysis run (analyze and _run_analysis_task) the previous
\* snapshot of the URL is loaded before the run's own report is persisted:
\* a run whose row is in the table has already loaded its history, the
\* history never holds the run's own row, and compute_delta never took the
\* run's own snapshot as 'previous'.
C12_LoadBeforeSave ==
    \A j \in DOMAIN runs :
        /\ Saved(j) => runs[j].history.t = "list"
        /\ runs[j].history.t = "list"
              => \A k \in 1..Len(runs[j].history.v) : runs[j].history.v[k].id # JobId(j)
        /\ runs[j].previous_id # Str(JobId(j))

\* two runs of the same URL: the second loaded the first one's snapshot as
\* 'previous', computed shifts against it and then persisted its own report
C12_Witness ==
    /\ Len(store) = 2
    /\ \E i, j \in DOMAIN runs :
          /\ i # j
          /\ store[1].id = JobId(i)
          /\ store[2].id = JobId(j)
          /\ runs[j].entry = "_run_analysis_task"
          /\ runs[i].entry = "analyze"
          /\ runs[j].previous_id = Str(JobId(i))
          /\ Len(runs[j].delta_context.v.shifts) > 0

-----------------------------------------------------------------------------
(* Further properties of ChangeDetector.compute_delta (SpecDelta)          *)

DiffedNames == {SectionName(k) : k \in DiffedKeys}

\* C13: for each of the six diffed sections compute_delta emits at most one
\* shift, and one iff exactly one of the previous/current statuses is
\* 'present', present -> error excepted: non-present -> present emits
\* 'emergence', present -> absent or partial emits 'breakage', transitions
\* among absent, partial and error emit nothing; every emitted shift has
\* significance 'high' and belongs to a diffed section.
C13_ShiftTable ==
    \A i \in Calls :
        /\ \A k \in DiffedKeys :
              LET prev == dcall[i].previous[k].data_status
                  curr == dcall[i].current[k].data_status
                  mine == ShiftsOf(delta[i], k)
              IN  /\ Len(mine) <= 1
                  /\ Len(mine) = 1 <=> /\ (prev = "present") # (curr = "present")
                                       /\ ~(prev = "present" /\ curr = "error")
                  /\ (prev # "present" /\ curr = "present")
                        => Len(mine) = 1 /\ mine[1].shift_type = "emergence"
                  /\ (prev = "present" /\ curr \in {"absent", "partial"})
                        => Len(mine) = 1 /\ mine[1].shift_type = "breakage"
                  /\ (prev # "present" /\ curr # "present") => mine = <<>>
        /\ \A n \in 1..Len(delta[i].shifts) :
              /\ delta[i].shifts[n].significance = "high"
              /\ delta[i].shifts[n].section \in DiffedNames

\* one call in which hiring emerged from 'absent', seo emerged from 'partial',
\* web broke to 'partial' and ads moved from 'absent' to 'error' silently
C13_Witness ==
    /\ DeltaDone
    /\ \E i \in Calls :
          /\ dcall[i].previous.hiring.data_status = "absent"
          /\ dcall[i].current.hiring.data_status = "present"
          /\ dcall[i].previous.seo.data_status = "partial"
          /\ dcall[i].current.seo.data_status = "present"
          /\ dcall[i].previous.web.data_status = "present"
          /\ dcall[i].current.web.data_status = "partial"
          /\ dcall[i].previous.ads.data_status = "absent"
          /\ dcall[i].current.ads.data_status = "error"
          /\ Len(delta[i].shifts) = 3

-----------------------------------------------------------------------------
(* Specification of infer over every combination of section outcomes: each *)
(* surface block is drawn from a few blocks that together produce every    *)
(* data_status its _infer_* function can return.                           *)

OutcomeBlocks(key) ==
    CASE key = "web" -> { EmptyDict, Dict([meta |-> Dict([title |-> Str("Real Corp")])]) }
      [] key = "seo" -> { EmptyDict, ErrorOnly, Dict([meta_issues |-> List(Take(MetaIssuePool, 1))]) }
      [] key = "tech_stack" -> { ErrorOnly, Dict([confidence |-> Str("medium")]),
                                 Dict([confidence |-> Str("high"), detected_framework |-> Str("Next.js")]) }
      [] key = "reviews" -> { EmptyDict, Dict([summary |-> Str("Customers praise the support team.")]) }
      [] key = "social" -> { ErrorOnly, Dict([twitter |-> Str("https://twitter.com/realcorp")]) }
      [] key = "hiring" -> { Dict([open_roles |-> List(<<>>)]), Dict([open_roles |-> List(<<"Backend Engineer">>)]) }
      [] key = "ads" -> { EmptyDict, Dict([platforms |-> List(<<"Meta">>)]) }

InitPosture ==
    /\ pc = "infer_start"
    /\ \E ch \in [SectionKeys -> UNION { OutcomeBlocks(k) : k \in SectionKeys }] :
         /\ \A k \in SectionKeys : ch[k] \in OutcomeBlocks(k)
         /\ raw = Dict(ch)
    /\ inferred = IdleInference
    /\ render = PyNone
    /\ report = ""
    /\ dcall = <<>>
    /\ delta = <<>>
    /\ targets = <<>>
    /\ norms = PyNone
    /\ outliers = <<>>
    /\ runs = <<>>
    /\ store = <<>>
    /\ jobs = NoRows
    /\ jobs_db = NoRows
    /\ cohorts = NoRows
    /\ calls = <<>>

NextPosture == Infer

SpecPosture == InitPosture /\ [][NextPosture]_vars

-----------------------------------------------------------------------------
(* Properties of InferenceEngine._synthesize_posture (SpecPosture)         *)

\* number of the seven inferences whose data_status is in the given set
StatusCount(statuses) == Cardinality({k \in SectionKeys : inferred[k].data_status \in statuses})

PostureLabels == {"Dark Forest", "Glass House", "Hybrid"}

\* C14: with P the number of 'present' sections and A the number of 'absent'
\* or 'error' sections ('partial' counts toward neither), the posture is
\* labelled 'Dark Forest' iff A > 2*P, otherwise 'Glass House' iff P > A,
\* otherwise 'Hybrid', and exactly one of the three labels appears in it.
C14_PostureLabel ==
    InferDone =>
        LET P == StatusCount({"present"})
            A == StatusCount({"absent", "error"})
            posture == inferred.strategic_posture
            expected == IF A > 2 * P THEN "Dark Forest"
                        ELSE IF P > A THEN "Glass House" ELSE "Hybrid"
        IN  {label \in PostureLabels : Contains(posture, label)} = {expected}

\* two present sections, four absent or erroring ones and one partial: the
\* 2:1 boundary, labelled 'Hybrid'
C14_Witness ==
    /\ pc = "inferred"
    /\ StatusCount({"present"}) = 2
    /\ StatusCount({"absent", "error"}) = 4
    /\ StatusCount({"partial"}) = 1
    /\ inferred.seo.data_status = "error"
    /\ Contains(inferred.strategic_posture, "'Hybrid'")

KeyFactors ==
    {"It relies on reputation over public validation", "It uses capital to force-multiply growth",
     "It treats its web presence as a primary asset", "Unknown"}

\* C15: the key-factor sentence follows the priority Customer-Voice-absent >
\* Paid-Media-present > Web-Presence-present > 'Unknown': reviews absent
\* gives the reputation sentence whatever the other sections are; otherwise
\* ads present gives the capital sentence even when web is present too;
\* otherwise web present gives the web sentence; otherwise 'Unknown'.
C15_KeyFactorPriority ==
    InferDone =>
        LET expected ==
                IF inferred.reviews.data_status = "absent"
                THEN "It relies on reputation over public validation"
                ELSE IF inferred.ads.data_status = "present"
                THEN "It uses capital to force-multiply growth"
                ELSE IF inferred.web.data_status = "present"
                THEN "It treats its web presence as a primary asset"
                ELSE "Unknown"
        IN  {kf \in KeyFactors : Contains(inferred.strategic_posture, "viral speed. " \o kf \o ". Primary")}
                = {expected}

\* reviews absent while ads and web are both present: the reputation
\* sentence is used
C15_Witness ==
    /\ pc = "inferred"
    /\ inferred.reviews.data_status = "absent"
    /\ inferred.ads.data_status = "present"
    /\ inferred.web.data_status = "present"
    /\ Contains(inferred.strategic_posture, "It relies on reputation over public validation")

-----------------------------------------------------------------------------
(* Further properties of the section inferences (SpecInfer)                *)

\* the raw block of a surface as infer reads it
RawBlock(k) == GetOr(raw, k, EmptyDict)

\* the issues of the raw SEO block, meta issues first
SeoIssues ==
    Or(Get(RawBlock("seo"), "meta_issues"), List(<<>>)).v \o Or(Get(RawBlock("seo"), "heading_issues"), List(<<>>)).v

\* C16: for an SEO block with no truthy error, data_status is 'present' iff
\* len(meta_issues) + len(heading_issues) = 0 and 'partial' for every count
\* >= 1 (4 or more included), and when partial the risk_note quotes the first
\* issue in meta-then-heading order; a truthy error yields 'error' whatever
\* the issue count is.
C16_SeoClassification ==
    InferDone =>
        IF Truthy(Get(RawBlock("seo"), "error"))
        THEN inferred.seo.data_status = "error"
        ELSE /\ inferred.seo.data_status = "present" <=> Len(SeoIssues) = 0
             /\ Len(SeoIssues) >= 1 =>
                   /\ inferred.seo.data_status = "partial"
                   /\ inferred.seo.risk_note = Str("Primary issue: " \o SeoIssues[1])

\* an SEO block with two meta issues and two heading issues, no error:
\* partial, quoting the first meta issue
C16_Witness ==
    /\ pc = "inferred"
    /\ ~Truthy(Get(RawBlock("seo"), "error"))
    /\ Len(SeoIssues) >= 4
    /\ Truthy(Get(RawBlock("seo"), "heading_issues"))
    /\ inferred.seo.data_status = "partial"
    /\ inferred.seo.risk_note = Str("Primary issue: Missing meta description.")

\* the confidence _infer_tech acts on: the block's confidence ('none' when
\* the key is missing), promoted to 'high' when it is 'none' and the legacy
\* frameworks list is non-empty
EffectiveConfidence ==
    LET c == GetOr(RawBlock("tech_stack"), "confidence", Str("none"))
    IN  IF IsStr(c, "none") /\ Truthy(Get(RawBlock("tech_stack"), "frameworks")) THEN Str("high") ELSE c

TechEvidence == Or(Get(RawBlock("tech_stack"), "evidence"), List(<<>>)).v

\* C17: Tech Stack classification follows the effective confidence: 'none'
\* gives 'absent' with confidence 'none' and an implication that calls the
\* stack indeterminate; 'low' or 'medium' gives 'partial' citing at most the
\* first 2 evidence strings; 'high' gives 'present' with confidence 'high'.
\* A block whose confidence is 'none' or missing but whose legacy frameworks
\* list is non-empty is treated as 'high'.
C17_TechClassification ==
    InferDone =>
        LET t == inferred.tech_stack
            b == RawBlock("tech_stack")
        IN  /\ IsStr(EffectiveConfidence, "none")
                  => /\ t.data_status = "absent"
                     /\ t.confidence = "none"
                     /\ Contains(t.strategic_implication, "indeterminate")
            /\ (IsStr(EffectiveConfidence, "low") \/ IsStr(EffectiveConfidence, "medium"))
                  => /\ t.data_status = "partial"
                     /\ \A i \in 1..Len(TechEvidence) :
                           Contains(t.strategic_implication, TechEvidence[i]) <=> i <= 2
            /\ IsStr(EffectiveConfidence, "high")
                  => /\ t.data_status = "present"
                     /\ t.confidence = "high"
            /\ (("confidence" \notin DOMAIN b.v \/ IsStr(Get(b, "confidence"), "none"))
                   /\ Truthy(Get(b, "frameworks")))
                  => /\ t.data_status = "present"
                     /\ t.confidence = "high"

\* a legacy payload: no confidence field, a non-empty frameworks list,
\* classified present with high confidence
C17_Witness ==
    /\ pc = "inferred"
    /\ "confidence" \notin DOMAIN RawBlock("tech_stack").v
    /\ Truthy(Get(RawBlock("tech_stack"), "frameworks"))
    /\ inferred.tech_stack.data_status = "present"
    /\ inferred.tech_stack.confidence = "high"
    /\ Contains(inferred.tech_stack.strategic_implication, "React, Vue")

\* the raw tech_stack block names no detected, probable or legacy framework
NoFrameworkNamed ==
    \A f \in {"detected_framework", "detected_cms", "probable_framework", "probable_cms", "frameworks"} :
        ~Truthy(Get(RawBlock("tech_stack"), f))

\* C18: a tech_stack block whose confidence field is missing or None and
\* which carries no detected, probable or legacy framework is tolerated as no
\* detection: Tech Stack is 'absent' with confidence 'none', never 'present'.
C18_TechNoneTolerated ==
    InferDone =>
        ((Get(RawBlock("tech_stack"), "confidence") = PyNone /\ NoFrameworkNamed)
            => /\ inferred.tech_stack.data_status = "absent"
               /\ inferred.tech_stack.confidence = "none")

\* C19: for every surface block that carries a truthy error field, whatever
\* its other fields contain, data_status is 'absent' for web, tech_stack,
\* reviews, social, hiring and ads, and 'error' for seo: an upstream failure
\* is never classified 'present' or 'partial'.
C19_ErrorNeverPresent ==
    InferDone =>
        \A k \in SectionKeys :
            Truthy(Get(RawBlock(k), "error"))
                => inferred[k].data_status = (IF k = "seo" THEN "error" ELSE "absent")

\* C20: whenever infer classifies a section as 'partial', that section's
\* confidence is 'medium' or 'low'.
C20_PartialConfidence ==
    InferDone =>
        \A k \in SectionKeys :
            inferred[k].data_status = "partial" => inferred[k].confidence \in {"medium", "low"}

\* C21: whenever infer classifies a section as 'present', that section's
\* confidence is 'high'.
C21_PresentConfidence ==
    InferDone =>
        \A k \in SectionKeys :
            inferred[k].data_status = "present" => inferred[k].confidence = "high"

\* C22: whenever infer classifies a section as 'absent' (or SEO as 'error'),
\* its plausible_causes list has between 2 and 4 entries, for every input,
\* tech_stack blocks that supply their own limitations list included.
C22_CauseCount ==
    InferDone =>
        \A k \in SectionKeys :
            inferred[k].data_status \in {"absent", "error"}
                => /\ Len(inferred[k].plausible_causes) >= 2
                   /\ Len(inferred[k].plausible_causes) <= 4

-----------------------------------------------------------------------------
(* Cohort matrix: agent/cohort.py normalize_job_result, build_cohort_matrix *)
(* and utils/cohort_discovery.py extract_domain.                           *)

\* the first position of the substring p in s at or after position i, 0 if none
RECURSIVE Find(_, _, _)
Find(s, p, i) ==
    IF i + Len(p) - 1 > Len(s) THEN 0
    ELSE IF SubSeq(s, i, i + Len(p) - 1) = p THEN i
    ELSE Find(s, p, i + 1)

\* s up to (not including) the first character that is one of "/", "?", "#"
RECURSIVE UntilDelimiter(_, _)
UntilDelimiter(s, i) ==
    IF i > Len(s) \/ SubSeq(s, i, i) \in {"/", "?", "#"} THEN SubSeq(s, 1, i - 1)
    ELSE UntilDelimiter(s, i + 1)

\* urlparse(url).netloc.lower() without a leading "www."
extract_domain(url) ==
    LET at == Find(url, "://", 1)
        netloc == IF at = 0 THEN "" ELSE UntilDelimiter(SubSeq(url, at + 3, Len(url)), 1)
        domain == Lower(netloc)
    IN  IF Len(domain) >= 4 /\ SubSeq(domain, 1, 4) = "www."
        THEN SubSeq(domain, 5, Len(domain))
        ELSE domain

\* any(kw in text for kw in kws)
AnyKeyword(text, kws) == \E i \in 1..Len(kws) : Contains(text, kws[i])

SocialPlatforms == <<"twitter", "linkedin", "instagram", "youtube">>

\* the value of an optional str field of TargetSignals
OptStr(x) == IF x.t = "str" THEN x.v ELSE x

\* has_social = any(social.get(k) for k in [...]); 'high' if has_social else 'none',
\* here with a middle grade for a single platform
SocialVisibility_graded(social) ==
    LET hits == {i \in 1..Len(SocialPlatforms) : Truthy(Get(social, SocialPlatforms[i]))}
    IN  IF Cardinality(hits) >= 2 THEN "high" ELSE IF Cardinality(hits) = 1 THEN "low" ELSE "none"

SocialVisibility(social) ==
    LET has_social == \E i \in 1..Len(SocialPlatforms) : Truthy(Get(social, SocialPlatforms[i]))
    IN  IF has_social THEN "high" ELSE "none"

\* fetch_limits[:5], here keeping the last five
CappedLimits_last_five(fetch_limits) ==
    IF Len(fetch_limits) > 5 THEN SubSeq(fetch_limits, Len(fetch_limits) - 4, Len(fetch_limits))
    ELSE fetch_limits

CappedLimits(fetch_limits) == Take(fetch_limits, 5)

\* the values of the Literal type of TargetSignals.tech_confidence
TechConfidenceLiteral == {"high", "medium", "low", "none"}

\* pydantic rejects the construction of a TargetSignals
ValidationError == [t |-> "ValidationError"]

normalize_job_result(job_result, url) ==
    LET profile == GetOr(job_result, "result", EmptyDict)
        \* Tech stack
        tech == GetOr(profile, "tech_stack", EmptyDict)
        tech_confidence == GetOr(tech, "confidence", Str("none"))
        probable_cms == Or(Or(Get(tech, "probable_cms"), Get(tech, "detected_cms")), Get(tech, "cms"))
        tech_limit == IF Truthy(Get(tech, "error")) THEN <<"Tech: " \o Get(tech, "error").v>> ELSE <<>>
        evidence == IF Truthy(Get(tech, "evidence")) THEN Take(Get(tech, "evidence").v, 2) ELSE <<>>
        \* Web presence
        web == GetOr(profile, "web", EmptyDict)
        web_text == Lower(Or(Or(Get(web, "raw_html"), Get(web, "text")), Str("")).v)
        pricing_visible == AnyKeyword(web_text, <<"pricing", "plans", "price", "/pricing">>)
        docs_visible == AnyKeyword(web_text, <<"/docs", "/documentation", "api-docs", "developer">>)
        web_limit == IF Truthy(Get(web, "error")) THEN <<"Web: " \o Get(web, "error").v>> ELSE <<>>
        \* SEO
        seo == GetOr(profile, "seo", EmptyDict)
        seo_issues == Or(Get(seo, "meta_issues"), List(<<>>)).v \o Or(Get(seo, "heading_issues"), List(<<>>)).v
        seo_hygiene == IF Truthy(Get(seo, "error")) THEN "unknown"
                       ELSE IF Len(seo_issues) = 0 THEN "good"
                       ELSE IF Len(seo_issues) <= 3 THEN "fair"
                       ELSE "poor"
        seo_limit == IF Truthy(Get(seo, "error")) THEN <<"SEO: " \o Get(seo, "error").v>> ELSE <<>>
        \* Hiring
        hiring == GetOr(profile, "hiring", EmptyDict)
        jobs_visible == Truthy(Get(hiring, "open_roles"))
        hiring_limit == IF Truthy(Get(hiring, "error")) THEN <<"Hiring: " \o Get(hiring, "error").v>> ELSE <<>>
        \* Ads
        ads == GetOr(profile, "ads", EmptyDict)
        paid_ads_detected == Truthy(Get(ads, "platforms"))
        ads_limit == IF Truthy(Get(ads, "error")) THEN <<"Ads: " \o Get(ads, "error").v>> ELSE <<>>
        \* Social
        social == GetOr(profile, "social", EmptyDict)
        social_visibility == SocialVisibility(social)
        social_limit == IF Truthy(Get(social, "error")) THEN <<"Social: " \o Get(social, "error").v>> ELSE <<>>
        \* Reviews
        reviews == GetOr(profile, "reviews", EmptyDict)
        review_visibility == Truthy(Get(reviews, "summary"))
        reviews_limit == IF Truthy(Get(reviews, "error")) THEN <<"Reviews: " \o Get(reviews, "error").v>> ELSE <<>>
        \* Name extraction
        company == GetOr(profile, "company", EmptyDict)
        name == Or(Get(company, "name"), Str(extract_domain(url)))
        fetch_limits == tech_limit \o web_limit \o seo_limit \o hiring_limit \o ads_limit
                        \o social_limit \o reviews_limit
    IN  IF tech_confidence.t # "str" \/ tech_confidence.v \notin TechConfidenceLiteral
        THEN ValidationError
        ELSE
        [url |-> url,
         name |-> OptStr(name),
         tech_confidence |-> tech_confidence.v,
         probable_cms |-> OptStr(probable_cms),
         pricing_visible |-> pricing_visible,
         docs_visible |-> docs_visible,
         jobs_visible |-> jobs_visible,
         paid_ads_detected |-> paid_ads_detected,
         seo_hygiene |-> seo_hygiene,
         social_visibility |-> social_visibility,
         review_visibility |-> review_visibility,
         evidence_snippets |-> Take(evidence, 5),
         fetch_limits |-> CappedLimits(fetch_limits)]

-----------------------------------------------------------------------------
(* Specification of normalize_job_result over drawn job results.           *)

MaxSurfaceOverrides == 2

SurfaceKeys == {"tech_stack", "web", "seo", "hiring", "ads", "social", "reviews", "company"}

SurfaceBlocks(k) ==
    CASE k = "tech_stack" ->
           { Dict([confidence |-> Str("high"), probable_cms |-> Str("WordPress"),
                   evidence |-> List(SubSeq(EvidencePool, 1, MaxEvidence))]),
             Dict([confidence |-> Str("low"), detected_cms |-> Str("Shopify"), evidence |-> List(<<>>)]),
             Dict([cms |-> Str("Wix"), evidence |-> List(SubSeq(EvidencePool, 1, 1)), error |-> Str("Partial")]),
             Dict([confidence |-> PyNone]) }
      [] k = "web" ->
           { Dict([raw_html |-> Str("See our Pricing")]),
             Dict([raw_html |-> Str(""), text |-> Str("API-Docs")]),
             Dict([text |-> Str("Hello"), error |-> Str("Thin")]) }
      [] k = "seo" ->
           { Dict([meta_issues |-> List(<<>>), heading_issues |-> PyNone]),
             Dict([meta_issues |-> List(SubSeq(MetaIssuePool, 1, 2)), heading_issues |-> List(SubSeq(HeadingIssuePool, 1, 1))]),
             Dict([meta_issues |-> List(SubSeq(MetaIssuePool, 1, 2)), heading_issues |-> List(SubSeq(HeadingIssuePool, 1, 2))]),
             Dict([meta_issues |-> List(<<>>), error |-> Str("Timeout")]) }
      [] k = "hiring" ->
           { Dict([open_roles |-> List(<<"Backend Engineer">>)]),
             Dict([open_roles |-> List(<<>>)]) }
      [] k = "ads" ->
           { Dict([platforms |-> List(<<"google">>)]),
             Dict([platforms |-> List(<<>>), error |-> Str("")]) }
      [] k = "social" ->
           { Dict([twitter |-> Str("https://twitter.com/realcorp")]),
             Dict([linkedin |-> Str("https://linkedin.com/company/realcorp"), twitter |-> PyNone]),
             Dict([instagram |-> Str(""), youtube |-> Str("https://youtube.com/realcorp")]),
             Dict([instagram |-> Str(""), twitter |-> PyNone, youtube |-> PyNone]),
             Dict([facebook |-> Str("https://facebook.com/realcorp")]),
             Dict([instagram |-> Str("https://instagram.com/realcorp"), error |-> Str("Timeout")]) }
      [] k = "reviews" ->
           { Dict([summary |-> Str("Customers praise the support team.")]),
             Dict([summary |-> PyNone]) }
      [] k = "company" ->
           { Dict([name |-> Str("Real Corp")]),
             Dict([name |-> PyNone]) }

AllSurfaceBlocks == UNION { SurfaceBlocks(k) : k \in SurfaceKeys }

\* results a job may hold: nothing collected, every collector failed, every surface visible
ResultMissing == EmptyDict
ResultError == Dict([k \in SurfaceKeys \ {"company"} |-> ErrorOnly])
ResultVisible ==
    Dict([tech_stack |-> Dict([confidence |-> Str("medium"), detected_cms |-> Str("Contentful"),
                               evidence |-> List(SubSeq(EvidencePool, 1, 2))]),
          web |-> Dict([raw_html |-> Str("Plans /docs")]),
          seo |-> Dict([meta_issues |-> List(<<>>), heading_issues |-> List(<<>>)]),
          hiring |-> Dict([open_roles |-> List(<<"Backend Engineer", "Account Executive">>)]),
          ads |-> Dict([platforms |-> List(<<"google", "meta">>)]),
          social |-> Dict([twitter |-> Str("https://twitter.com/realcorp"), youtube |-> Str("https://youtube.com/realcorp")]),
          reviews |-> Dict([summary |-> Str("Customers praise the support team.")]),
          company |-> Dict([name |-> Str("Real Corp")])])

BaseResults == {ResultMissing, ResultError, ResultVisible}

TargetUrls == {"https://www.RealCorp.example.com/about", "realcorp.example.com"}

InitNormalize ==
    /\ pc = "normalize_start"
    /\ \E base \in BaseResults, ks \in SUBSET SurfaceKeys, url \in TargetUrls :
         /\ Cardinality(ks) <= MaxSurfaceOverrides
         /\ \E ch \in [ks -> AllSurfaceBlocks \cup {ErrorDenied, Removed}] :
              /\ \A k \in ks : ch[k] \in SurfaceBlocks(k) \cup {ErrorDenied, Removed}
              /\ calls = <<[handler |-> "normalize_job_result",
                            job_result |-> Dict([status |-> Str("complete"), result |-> Override(base, ks, ch)]),
                            url |-> url]>>
    /\ targets = <<>>
    /\ raw = EmptyDict
    /\ inferred = IdleInference
    /\ render = PyNone
    /\ report = ""
    /\ dcall = <<>>
    /\ delta = <<>>
    /\ norms = PyNone
    /\ outliers = <<>>
    /\ runs = <<>>
    /\ store = <<>>
    /\ jobs = NoRows
    /\ jobs_db = NoRows
    /\ cohorts = NoRows

Normalize ==
    /\ pc = "normalize_start"
    /\ targets' = <<normalize_job_result(calls[1].job_result, calls[1].url)>>
    /\ pc' = "normalized"
    /\ UNCHANGED <<raw, inferred, render, report, dcall, delta, norms, outliers, runs, store, jobs, jobs_db, cohorts, calls>>

NextNormalize == Normalize

SpecNormalize == InitNormalize /\ [][NextNormalize]_vars

-----------------------------------------------------------------------------
(* Jobs and cohorts as the server keeps them: the in-memory jobs dict of   *)
(* agent/micro_analyst.py and the jobs and cohorts tables of               *)
(* utils/persistence.py.  A list column holds <<>> for NULL: save_cohort   *)
(* stores NULL for an empty list and get_cohort reads NULL as [].          *)

PyInt(n) == [t |-> "int", v |-> n]

\* InferredProfile.model_dump()
model_dump(inferred_profile) ==
    Dict([k \in SectionKeys \cup {"strategic_posture"} |->
            IF k = "strategic_posture" THEN Str(inferred_profile.strategic_posture)
            ELSE Dict([section |-> Str(inferred_profile[k].section),
                       data_status |-> Str(inferred_profile[k].data_status),
                       confidence |-> Str(inferred_profile[k].confidence),
                       plausible_causes |-> List(inferred_profile[k].plausible_causes),
                       strategic_implication |-> Str(inferred_profile[k].strategic_implication),
                       risk_note |-> inferred_profile[k].risk_note])])

\* jobs[job_id] = {...} of create_analysis_job
QueuedJob(url) ==
    Dict([status |-> Str("queued"), progress |-> PyInt(0), company_url |-> Str(url),
          result |-> PyNone, error |-> PyNone])

\* the job record once _run_analysis_task has stored its result
CompleteJob(job, result) ==
    Dict([job.v EXCEPT !["status"] = Str("complete"), !["progress"] = PyInt(100), !["result"] = result])

\* the result _run_analysis_task stores for a job: the inferred profile's dump and the report
StoredResult(raw_profile) ==
    Dict([profile |-> model_dump(infer(raw_profile)), report_markdown |-> Str("# OSINT Intelligence Report")])

\* SELECT * FROM jobs WHERE id = ?
get_job_db(db, job_id) == IF job_id \in DOMAIN db THEN db[job_id] ELSE PyNone

\* cohort_results' get_job_result: in memory first, then the database
get_job_result(mem, db, job_id) == IF job_id \in DOMAIN mem THEN mem[job_id] ELSE get_job_db(db, job_id)

\* SELECT * FROM cohorts WHERE cohort_id = ?
get_cohort(db, cohort_id) == IF cohort_id \in DOMAIN db THEN db[cohort_id] ELSE PyNone

ValueError == [t |-> "ValueError"]

\* the placeholder without its note
PlaceholderTarget_no_note(url, job_id) == TargetSignals(url)

\* TargetSignals(url=url, fetch_limits=[f"Job {job_id} not complete"])
PlaceholderTarget(url, job_id) ==
    [TargetSignals(url) EXCEPT !.fetch_limits = <<"Job " \o job_id \o " not complete">>]

\* the target build_cohort_matrix appends for the i-th (from 0) job id
MatrixTarget(cohort, get_job_fn, i) ==
    LET job_id == cohort.job_ids[i + 1]
        url == IF i < Len(cohort.confirmed_urls) THEN cohort.confirmed_urls[i + 1]
               ELSE "unknown_" \o ToString(i)
        job_result == get_job_fn[job_id]
    IN  IF job_result # PyNone /\ Get(job_result, "status") = Str("complete")
        THEN normalize_job_result(job_result, url)
        ELSE PlaceholderTarget(url, job_id)

\* get_job_fn is the function from the cohort's job ids to what the callable returns
build_cohort_matrix(cohort_db, cohort_id, get_job_fn) ==
    LET cohort == get_cohort(cohort_db, cohort_id)
        ts == [k \in 1..Len(cohort.job_ids) |-> MatrixTarget(cohort, get_job_fn, k - 1)]
        ns == compute_cohort_norms(ts)
        outs == find_outliers(ts, ns)
        own == {k \in 1..Len(outs) : outs[k].url = cohort.anchor_url}
        anchor_deviations == IF (\E k \in 1..Len(ts) : ts[k].url = cohort.anchor_url) /\ own # {}
                             THEN outs[CHOOSE k \in own : \A m \in own : k <= m].deviations
                             ELSE <<>>
    IN  IF cohort = PyNone THEN ValueError
        ELSE IF \E k \in 1..Len(ts) : ts[k] = ValidationError THEN ValidationError
        ELSE [t |-> "CohortMatrix", targets |-> ts, norms |-> ns, outliers |-> outs,
              anchor_deviations |-> anchor_deviations]

-----------------------------------------------------------------------------
(* Specification of build_cohort_matrix over drawn cohorts and jobs.       *)

CohortId == "cohort-1"
AnchorUrl == "https://realcorp.example.com"
CohortUrls == <<"https://realcorp.example.com", "https://othercorp.example.com",
                "https://thirdcorp.example.com", "https://fourthcorp.example.com">>

\* results of complete jobs: the base results, one surface varied, and what the task stores
MatrixResults ==
    BaseResults
    \cup { Override(ResultMissing, {"social"}, [k \in {"social"} |-> b]) : b \in SurfaceBlocks("social") }
    \cup { Override(ResultVisible, {"tech_stack"}, [k \in {"tech_stack"} |-> b]) : b \in SurfaceBlocks("tech_stack") }
    \cup { StoredResult(ProfilePresent) }

\* what a job id of the cohort may resolve to: nowhere, a row of the jobs table
\* (whose status is never 'complete'), or an entry of the in-memory dict
JobPlaces ==
    { [place |-> "nowhere", status |-> "none"] }
    \cup [place : {"db"}, status : {"running", "failed"}]
    \cup [place : {"memory"}, status : {"queued", "running", "failed", "complete"}]

MkJob(url, status, result) ==
    IF status = "complete" THEN CompleteJob(QueuedJob(url), result)
    ELSE Dict([QueuedJob(url).v EXCEPT !["status"] = Str(status)])

InitMatrix ==
    /\ pc = "matrix_start"
    /\ \E n \in 1..MaxJobs, c \in 1..MaxJobs :
         \E pl \in [1..n -> JobPlaces], rs \in [1..n -> MatrixResults] :
             /\ \A j \in 1..n : pl[j].status # "complete" => rs[j] = ResultMissing
             /\ cohorts = [id \in {CohortId} |->
                             [anchor_url |-> AnchorUrl, status |-> "analyzing",
                              confirmed_urls |-> SubSeq(CohortUrls, 1, c),
                              job_ids |-> [j \in 1..n |-> JobId(j)], matrix |-> PyNone]]
             /\ jobs = [id \in {JobId(j) : j \in {i \in 1..n : pl[i].place = "memory"}} |->
                          LET j == CHOOSE i \in 1..n : JobId(i) = id
                          IN  MkJob(CohortUrls[j], pl[j].status, rs[j])]
             /\ jobs_db = [id \in {JobId(j) : j \in {i \in 1..n : pl[i].place = "db"}} |->
                             LET j == CHOOSE i \in 1..n : JobId(i) = id
                             IN  MkJob(CohortUrls[j], pl[j].status, rs[j])]
    /\ calls = <<[handler |-> "build_cohort_matrix", cohort_id |-> CohortId, returned |-> PyNone]>>
    /\ targets = <<>>
    /\ norms = PyNone
    /\ outliers = <<>>
    /\ raw = EmptyDict
    /\ inferred = IdleInference
    /\ render = PyNone
    /\ report = ""
    /\ dcall = <<>>
    /\ delta = <<>>
    /\ runs = <<>>
    /\ store = <<>>

\* build_cohort_matrix(cohort_id, get_job_result) as cohort_results calls it
BuildCohortMatrix ==
    /\ pc = "matrix_start"
    /\ LET cohort == get_cohort(cohorts, calls[1].cohort_id)
           get_job_fn == [id \in {cohort.job_ids[k] : k \in 1..Len(cohort.job_ids)} |->
                            get_job_result(jobs, jobs_db, id)]
           matrix == build_cohort_matrix(cohorts, calls[1].cohort_id, get_job_fn)
       IN  /\ calls' = <<[calls[1] EXCEPT !.returned = matrix]>>
           /\ IF matrix.t = "CohortMatrix"
              THEN /\ targets' = matrix.targets
                   /\ norms' = matrix.norms
                   /\ outliers' = matrix.outliers
                   /\ pc' = "matrix_built"
              ELSE /\ UNCHANGED <<targets, norms, outliers>>
                   /\ pc' = "matrix_raised"
    /\ UNCHANGED <<raw, inferred, render, report, dcall, delta, runs, store, jobs, jobs_db, cohorts>>

NextMatrix == BuildCohortMatrix

SpecMatrix == InitMatrix /\ [][NextMatrix]_vars

-----------------------------------------------------------------------------
(* Claims about the cohort matrix.                                         *)

MatrixDone == pc = "matrix_built"

\* the cohort row and, for the i-th target, its job id and what the lookup returns
TheCohort == cohorts[CohortId]
JobOf(i) == get_job_result(jobs, jobs_db, TheCohort.job_ids[i])
IsComplete(job) == job # PyNone /\ Get(job, "status") = Str("complete")

\* the social block of the result of a job
SocialOf(job) == GetOr(GetOr(job, "result", EmptyDict), "social", EmptyDict)
NamesPlatform(social) ==
    \E k \in {"twitter", "linkedin", "instagram", "youtube"} : k \in DOMAIN social.v /\ Truthy(social.v[k])

\* C23: a normalised target has social_visibility 'high' iff one of twitter,
\* linkedin, instagram, youtube is truthy in the job's social block and 'none'
\* otherwise; no target, normalised or placeholder, carries 'low'.
C23_SocialVisibility ==
    MatrixDone =>
        \A i \in 1..Len(targets) :
            /\ targets[i].social_visibility # "low"
            /\ IF IsComplete(JobOf(i))
               THEN /\ targets[i].social_visibility = "high" <=> NamesPlatform(SocialOf(JobOf(i)))
                    /\ targets[i].social_visibility = "none" <=> ~NamesPlatform(SocialOf(JobOf(i)))
               ELSE targets[i].social_visibility = "none"

\* a matrix with a placeholder and a target of a job that names exactly one of
\* the four platforms and is 'high'
C23_Witness ==
    /\ MatrixDone
    /\ \E i, j \in 1..Len(targets) :
         /\ ~IsComplete(JobOf(i))
         /\ IsComplete(JobOf(j))
         /\ Cardinality({k \in {"twitter", "linkedin", "instagram", "youtube"} :
                            Truthy(Get(SocialOf(JobOf(j)), k))}) = 1
         /\ targets[j].social_visibility = "high"

\* the error messages of a result in the order Tech, Web, SEO, Hiring, Ads, Social, Reviews
LimitOrder == <<<<"tech_stack", "Tech">>, <<"web", "Web">>, <<"seo", "SEO">>, <<"hiring", "Hiring">>,
                <<"ads", "Ads">>, <<"social", "Social">>, <<"reviews", "Reviews">>>>

RECURSIVE LimitsFrom(_, _)
LimitsFrom(result, i) ==
    IF i > Len(LimitOrder) THEN <<>>
    ELSE LET error == Get(GetOr(result, LimitOrder[i][1], EmptyDict), "error")
         IN  (IF Truthy(error) THEN <<LimitOrder[i][2] \o ": " \o error.v>> ELSE <<>>)
             \o LimitsFrom(result, i + 1)

NormalizeDone == pc = "normalized" /\ targets[1] # ValidationError

NormalizedResult == calls[1].job_result.v["result"]

\* C24: fetch_limits holds the first five (at most) of the error messages
\* collected in the order Tech, Web, SEO, Hiring, Ads, Social, Reviews;
\* evidence_snippets holds at most five entries, each from the tech_stack evidence.
C24_Caps ==
    NormalizeDone =>
        LET all == LimitsFrom(NormalizedResult, 1)
            tech_evidence == Or(Get(GetOr(NormalizedResult, "tech_stack", EmptyDict), "evidence"), List(<<>>)).v
        IN  /\ Len(targets[1].fetch_limits) <= 5
            /\ targets[1].fetch_limits = SubSeq(all, 1, IF Len(all) < 5 THEN Len(all) ELSE 5)
            /\ Len(targets[1].evidence_snippets) <= 5
            /\ \A k \in 1..Len(targets[1].evidence_snippets) :
                   \E m \in 1..Len(tech_evidence) : targets[1].evidence_snippets[k] = tech_evidence[m]

\* all seven surfaces carry an error and five limits are kept
C24_Witness ==
    /\ NormalizeDone
    /\ Len(LimitsFrom(NormalizedResult, 1)) = 7
    /\ Len(targets[1].fetch_limits) = 5

\* C25: every job that is missing or not 'complete' contributes a placeholder
\* target: the URL at its index, fetch_limits == ['Job {id} not complete'], every
\* other field at its default; the matrix has one target per job id, in job order.
C25_Placeholders ==
    MatrixDone =>
        /\ Len(targets) = Len(TheCohort.job_ids)
        /\ \A i \in 1..Len(targets) :
             ~IsComplete(JobOf(i)) =>
                 targets[i] =
                     [url |-> IF i <= Len(TheCohort.confirmed_urls) THEN TheCohort.confirmed_urls[i]
                              ELSE "unknown_" \o ToString(i - 1),
                      name |-> PyNone, tech_confidence |-> "none", probable_cms |-> PyNone,
                      pricing_visible |-> FALSE, docs_visible |-> FALSE, jobs_visible |-> FALSE,
                      paid_ads_detected |-> FALSE, seo_hygiene |-> "unknown", social_visibility |-> "none",
                      review_visibility |-> FALSE, evidence_snippets |-> <<>>,
                      fetch_limits |-> <<"Job " \o TheCohort.job_ids[i] \o " not complete">>]

\* a matrix with a placeholder for a failed job, after a normalised target
C25_Witness ==
    /\ MatrixDone
    /\ Len(targets) >= 2
    /\ IsComplete(JobOf(1))
    /\ JobOf(2) # PyNone
    /\ Get(JobOf(2), "status") = Str("failed")
    /\ targets[2].fetch_limits = <<"Job job-2 not complete">>

-----------------------------------------------------------------------------
(* Cohort lifecycle: confirm_cohort, start_cohort_analysis (agent/cohort.py) *)
(* and cohort_results (agent/cohort_endpoints.py) over the cohorts table,  *)
(* with the analysis jobs they fan out.  The endpoints are plain functions *)
(* that the server runs on worker threads, so requests interleave between  *)
(* their reads and writes of the table.                                    *)

MaxCalls == 3

\* INSERT INTO cohorts ... ON CONFLICT(cohort_id) DO UPDATE: status is overwritten,
\* a list or matrix only when the argument is non-empty (COALESCE)
save_cohort(db, cohort_id, anchor_url, status, confirmed_urls, job_ids, matrix) ==
    IF cohort_id \in DOMAIN db
    THEN [db EXCEPT ![cohort_id] =
            [@ EXCEPT !.status = status,
                      !.confirmed_urls = IF confirmed_urls # <<>> THEN confirmed_urls ELSE @,
                      !.job_ids = IF job_ids # <<>> THEN job_ids ELSE @,
                      !.matrix = IF matrix # PyNone THEN matrix ELSE @]]
    ELSE [id \in DOMAIN db \cup {cohort_id} |->
            IF id = cohort_id
            THEN [anchor_url |-> anchor_url, status |-> status, confirmed_urls |-> confirmed_urls,
                  job_ids |-> job_ids, matrix |-> matrix]
            ELSE db[id]]

\* INSERT INTO jobs ... ON CONFLICT(id) DO UPDATE SET status, progress, result_json, error
save_job(db, job_id, status, progress, company_url, result, error) ==
    [id \in DOMAIN db \cup {job_id} |->
        IF id # job_id THEN db[id]
        ELSE IF job_id \in DOMAIN db
        THEN Dict([db[job_id].v EXCEPT !["status"] = Str(status), !["progress"] = PyInt(progress),
                                          !["result"] = result, !["error"] = error])
        ELSE Dict([status |-> Str(status), progress |-> PyInt(progress), company_url |-> Str(company_url),
                   result |-> result, error |-> error])]

\* confirmed = list(final_urls), with the anchor inserted in front when asked for and absent
ConfirmedList(final_urls, include_anchor, anchor_url) ==
    IF include_anchor /\ ~(\E k \in 1..Len(final_urls) : final_urls[k] = anchor_url)
    THEN <<anchor_url>> \o final_urls
    ELSE final_urls

\* the raw profile the collectors gather for a URL
ProfileOf(url) == IF url = CohortUrls[2] THEN ProfileError ELSE ProfilePresent

\* a request before its handler has run
Call(handler, final_urls, include_anchor) ==
    [handler |-> handler, pos |-> "get_cohort", final_urls |-> final_urls, include_anchor |-> include_anchor,
     cohort |-> PyNone, i |-> 0, job_ids |-> <<>>, matrix |-> PyNone, built_from |-> PyNone]

Requests ==
    { Call("confirm_cohort", <<CohortUrls[2]>>, TRUE),
      Call("confirm_cohort", <<CohortUrls[2], CohortUrls[3]>>, FALSE),
      Call("confirm_cohort", <<>>, FALSE),
      Call("start_cohort_analysis", <<>>, FALSE),
      Call("cohort_results", <<>>, FALSE) }

\* the state propose_cohort leaves: one cohort in status 'proposed'
InitFlow ==
    /\ pc = "serving"
    /\ cohorts = [id \in {CohortId} |->
                    [anchor_url |-> AnchorUrl, status |-> "proposed", confirmed_urls |-> <<>>,
                     job_ids |-> <<>>, matrix |-> PyNone]]
    /\ \E n \in 1..MaxCalls : \E rq \in [1..n -> Requests] : calls = rq
    /\ jobs = NoRows
    /\ jobs_db = NoRows
    /\ targets = <<>>
    /\ norms = PyNone
    /\ outliers = <<>>
    /\ raw = EmptyDict
    /\ inferred = IdleInference
    /\ render = PyNone
    /\ report = ""
    /\ dcall = <<>>
    /\ delta = <<>>
    /\ runs = <<>>
    /\ store = <<>>

FlowUnchanged ==
    UNCHANGED <<pc, raw, inferred, render, report, dcall, delta, targets, norms, outliers, runs, store>>

At(c, handler, pos) == calls[c].handler = handler /\ calls[c].pos = pos

\* confirm_cohort: cohort = get_cohort(cohort_id) and the two checks
ConfirmGet(c) ==
    /\ At(c, "confirm_cohort", "get_cohort")
    /\ LET cohort == get_cohort(cohorts, CohortId)
       IN  calls' = [calls EXCEPT ![c] =
                        IF cohort = PyNone \/ cohort.status # "proposed"
                        THEN [@ EXCEPT !.pos = "raised"]
                        ELSE [@ EXCEPT !.pos = "save_cohort", !.cohort = cohort]]
    /\ UNCHANGED <<cohorts, jobs, jobs_db>>
    /\ FlowUnchanged

\* confirm_cohort: save_cohort(status="confirmed", confirmed_urls=confirmed)
ConfirmSave(c) ==
    /\ At(c, "confirm_cohort", "save_cohort")
    /\ cohorts' = save_cohort(cohorts, CohortId, calls[c].cohort.anchor_url, "confirmed",
                              ConfirmedList(calls[c].final_urls, calls[c].include_anchor, calls[c].cohort.anchor_url),
                              <<>>, PyNone)
    /\ calls' = [calls EXCEPT ![c].pos = "returned"]
    /\ UNCHANGED <<jobs, jobs_db>>
    /\ FlowUnchanged

\* start_cohort_analysis: cohort = get_cohort(cohort_id) and the three checks
StartGet(c) ==
    /\ At(c, "start_cohort_analysis", "get_cohort")
    /\ LET cohort == get_cohort(cohorts, CohortId)
       IN  calls' = [calls EXCEPT ![c] =
                        IF cohort = PyNone \/ cohort.status # "confirmed" \/ cohort.confirmed_urls = <<>>
                        THEN [@ EXCEPT !.pos = "raised"]
                        ELSE [@ EXCEPT !.pos = "analyze_fn", !.cohort = cohort, !.i = 1]]
    /\ UNCHANGED <<cohorts, jobs, jobs_db>>
    /\ FlowUnchanged

\* start_cohort_analysis: one iteration of the fan-out loop.  analyze_fn is
\* create_analysis_job, which registers a queued job under a fresh id, or raises
StartAnalyze(c) ==
    /\ At(c, "start_cohort_analysis", "analyze_fn")
    /\ LET url == calls[c].cohort.confirmed_urls[calls[c].i]
           job_id == JobId(Cardinality(DOMAIN jobs) + 1)
           next == IF calls[c].i = Len(calls[c].cohort.confirmed_urls) THEN "save_cohort" ELSE "analyze_fn"
       IN  \E started \in BOOLEAN :
              IF started
              THEN /\ jobs' = [id \in DOMAIN jobs \cup {job_id} |->
                                  IF id = job_id THEN QueuedJob(url) ELSE jobs[id]]
                   /\ calls' = [calls EXCEPT ![c] =
                                   [@ EXCEPT !.job_ids = Append(@, job_id), !.i = @ + 1, !.pos = next]]
              ELSE /\ jobs' = jobs
                   /\ calls' = [calls EXCEPT ![c] = [@ EXCEPT !.i = @ + 1, !.pos = next]]
    /\ UNCHANGED <<cohorts, jobs_db>>
    /\ FlowUnchanged

\* start_cohort_analysis: save_cohort(status="analyzing", job_ids=job_ids)
StartSave(c) ==
    /\ At(c, "start_cohort_analysis", "save_cohort")
    /\ cohorts' = save_cohort(cohorts, CohortId, calls[c].cohort.anchor_url, "analyzing",
                              <<>>, calls[c].job_ids, PyNone)
    /\ calls' = [calls EXCEPT ![c].pos = "returned"]
    /\ UNCHANGED <<jobs, jobs_db>>
    /\ FlowUnchanged

\* cohort_results: cohort = get_cohort(cohort_id); 404 or the early return without job ids
ResultsGet(c) ==
    /\ At(c, "cohort_results", "get_cohort")
    /\ LET cohort == get_cohort(cohorts, CohortId)
       IN  calls' = [calls EXCEPT ![c] =
                        IF cohort = PyNone THEN [@ EXCEPT !.pos = "raised"]
                        ELSE IF cohort.job_ids = <<>> THEN [@ EXCEPT !.pos = "returned", !.cohort = cohort]
                        ELSE [@ EXCEPT !.pos = "check_jobs", !.cohort = cohort]]
    /\ UNCHANGED <<cohorts, jobs, jobs_db>>
    /\ FlowUnchanged

\* job.get("status") in ("complete", "failed")
Finished(job) == job # PyNone /\ Get(job, "status") \in {Str("complete"), Str("failed")}

\* cohort_results: the all_complete loop
ResultsCheck(c) ==
    /\ At(c, "cohort_results", "check_jobs")
    /\ LET job_ids == calls[c].cohort.job_ids
           all_complete == \A k \in 1..Len(job_ids) : Finished(get_job_result(jobs, jobs_db, job_ids[k]))
       IN  calls' = [calls EXCEPT ![c].pos = IF all_complete THEN "build_cohort_matrix" ELSE "returned"]
    /\ UNCHANGED <<cohorts, jobs, jobs_db>>
    /\ FlowUnchanged

\* cohort_results: matrix = build_cohort_matrix(cohort_id, get_job_result)
ResultsBuild(c) ==
    /\ At(c, "cohort_results", "build_cohort_matrix")
    /\ LET cohort == get_cohort(cohorts, CohortId)
           get_job_fn == [id \in {cohort.job_ids[k] : k \in 1..Len(cohort.job_ids)} |->
                            get_job_result(jobs, jobs_db, id)]
           matrix == build_cohort_matrix(cohorts, CohortId, get_job_fn)
       IN  calls' = [calls EXCEPT ![c] =
                        IF matrix.t = "CohortMatrix"
                        THEN [@ EXCEPT !.pos = "save_cohort", !.matrix = matrix, !.built_from = cohort]
                        ELSE [@ EXCEPT !.pos = "raised"]]
    /\ UNCHANGED <<cohorts, jobs, jobs_db>>
    /\ FlowUnchanged

\* cohort_results: save_cohort(status="complete", matrix=matrix.model_dump(), report_md=...)
ResultsSave(c) ==
    /\ At(c, "cohort_results", "save_cohort")
    /\ cohorts' = save_cohort(cohorts, CohortId, calls[c].cohort.anchor_url, "complete",
                              <<>>, <<>>, calls[c].matrix)
    /\ calls' = [calls EXCEPT ![c].pos = "returned"]
    /\ UNCHANGED <<jobs, jobs_db>>
    /\ FlowUnchanged

\* _run_analysis_task for a queued job, from its first statement to its return:
\* the result is stored in memory and the last save_job left the row at
\* 'running' / 95, or an exception marked the job failed in both places
TaskRun(job_id) ==
    /\ Get(jobs[job_id], "status") = Str("queued")
    /\ LET url == Get(jobs[job_id], "company_url").v
       IN  \E ok \in BOOLEAN :
              IF ok
              THEN /\ jobs' = [jobs EXCEPT ![job_id] = CompleteJob(@, StoredResult(ProfileOf(url)))]
                   /\ jobs_db' = save_job(jobs_db, job_id, "running", 95, url, PyNone, PyNone)
              ELSE /\ jobs' = [jobs EXCEPT ![job_id] =
                                  Dict([@.v EXCEPT !["status"] = Str("failed"), !["progress"] = PyInt(10),
                                                   !["error"] = Str("Timeout")])]
                   /\ jobs_db' = save_job(jobs_db, job_id, "failed", 10, url, PyNone, Str("Timeout"))
    /\ UNCHANGED <<cohorts, calls>>
    /\ FlowUnchanged

NextFlow ==
    \/ \E c \in 1..Len(calls) :
          \/ ConfirmGet(c) \/ ConfirmSave(c)
          \/ StartGet(c) \/ StartAnalyze(c) \/ StartSave(c)
          \/ ResultsGet(c) \/ ResultsCheck(c) \/ ResultsBuild(c) \/ ResultsSave(c)
    \/ \E job_id \in DOMAIN jobs : TaskRun(job_id)

SpecFlow == InitFlow /\ [][NextFlow]_vars

-----------------------------------------------------------------------------
(* Claims about the cohort lifecycle.                                      *)

StatusRank(status) ==
    CASE status = "proposed" -> 1
      [] status = "confirmed" -> 2
      [] status = "analyzing" -> 3
      [] status = "complete" -> 4

\* C26: the persisted status of a cohort never moves backward along proposed ->
\* confirmed -> analyzing -> complete, and a call that raises (ValueError) starts
\* no job and leaves the stored cohort unchanged.
C26_StatusForward ==
    [][ /\ StatusRank(cohorts'[CohortId].status) >= StatusRank(cohorts[CohortId].status)
        /\ \A c \in 1..Len(calls) :
             calls'[c].pos = "raised" /\ calls[c].pos # "raised" => cohorts' = cohorts /\ jobs' = jobs ]_vars

\* the cohort_results calls that have built a matrix, and the i-th job of such a matrix
Built == {c \in 1..Len(calls) : calls[c].handler = "cohort_results" /\ calls[c].matrix # PyNone}
BuiltJob(c, i) == jobs[calls[c].built_from.job_ids[i]]
AnalysedUrl(job) == Get(job, "company_url").v

\* C27: the target derived from a job completed by _run_analysis_task reflects
\* the job's profile: jobs_visible is true exactly when the hiring block of the
\* profile had open roles, review_visibility exactly when reviews had a summary.
C27_ReflectsProfile ==
    \A c \in Built :
        \A i \in 1..Len(calls[c].matrix.targets) :
            IsComplete(BuiltJob(c, i)) =>
                LET profile == ProfileOf(AnalysedUrl(BuiltJob(c, i)))
                    target == calls[c].matrix.targets[i]
                IN  /\ target.jobs_visible = Truthy(Get(GetOr(profile, "hiring", EmptyDict), "open_roles"))
                    /\ target.review_visibility = Truthy(Get(GetOr(profile, "reviews", EmptyDict), "summary"))

\* no two requests of the same kind: nothing races between a check and a save
OneOfEach == \A c, d \in 1..Len(calls) : calls[c].handler = calls[d].handler => c = d

\* C29: in a matrix built after start_cohort_analysis every target carries the
\* URL its job analysed, and the URL of every started job appears in the
\* matrix, also when analyze_fn failed for an earlier confirmed URL.
C29_TargetUrls ==
    OneOfEach =>
        \A c \in Built :
            LET ts == calls[c].matrix.targets
            IN  /\ \A i \in 1..Len(ts) : ts[i].url = AnalysedUrl(BuiltJob(c, i))
                /\ \A id \in DOMAIN jobs : \E i \in 1..Len(ts) : ts[i].url = AnalysedUrl(jobs[id])

\* no start_cohort_analysis call is between its read and its save
StartsSettled ==
    \A c \in 1..Len(calls) :
        calls[c].handler = "start_cohort_analysis" => calls[c].pos \in {"get_cohort", "returned", "raised"}

\* C30: under every interleaving of start_cohort_analysis calls each confirmed
\* URL gets at most one job, and once the calls have returned the job_ids stored
\* for the cohort list every job that was started.
C30_SingleFanOut ==
    /\ \A j1, j2 \in DOMAIN jobs : AnalysedUrl(jobs[j1]) = AnalysedUrl(jobs[j2]) => j1 = j2
    /\ StartsSettled =>
           \A id \in DOMAIN jobs :
               \E k \in 1..Len(cohorts[CohortId].job_ids) : cohorts[CohortId].job_ids[k] = id

-----------------------------------------------------------------------------
(* Jobs across a server restart: create_analysis_job, _run_analysis_task,  *)
(* startup_event and get_job_status (agent/micro_analyst.py) over the      *)
(* in-memory jobs dict and the jobs table.                                 *)

\* the statements of _run_analysis_task that touch the job, in program order
JobSteps == <<"mark_running", "collect", "infer", "store_result", "save_report">>

\* a background task added by create_analysis_job
Task(job_id, url) ==
    [handler |-> "_run_analysis_task", job_id |-> job_id, company_url |-> url, pos |-> 1, outcome |-> "pending"]

\* a client polling GET /jobs/{job_id}; returned is the status of the last response
Poll(job_id) == [handler |-> "get_job_status", job_id |-> job_id, returned |-> "unasked"]

NotFound == [t |-> "HTTPException", status_code |-> 404]

\* jobs.get(job_id), then get_job_db(job_id), then 404
get_job_status(mem, db, job_id) ==
    LET job == IF job_id \in DOMAIN mem THEN mem[job_id] ELSE get_job_db(db, job_id)
    IN  IF job = PyNone THEN NotFound ELSE job

\* SELECT * FROM jobs WHERE status NOT IN ('complete', 'failed')
load_pending_jobs(db) ==
    LET ids == {id \in DOMAIN db : Get(db[id], "status") \notin {Str("complete"), Str("failed")}}
    IN  [id \in ids |-> db[id]]

\* the loop body of startup_event for one pending job
Recovered(job) ==
    IF Get(job, "status") = Str("running")
    THEN Dict([job.v EXCEPT !["status"] = Str("failed"),
                            !["error"] = Str("Job interrupted by server restart.")])
    ELSE job

\* the state cohort_analyze leaves: queued jobs in memory, their tasks scheduled
InitRestart ==
    /\ pc = "serving"
    /\ \E n \in 1..MaxJobs :
         /\ jobs = [id \in {JobId(j) : j \in 1..n} |->
                      QueuedJob(CohortUrls[CHOOSE j \in 1..n : JobId(j) = id])]
         /\ calls = [k \in 1..(2 * n) |->
                       IF k <= n THEN Task(JobId(k), CohortUrls[k]) ELSE Poll(JobId(k - n))]
    /\ jobs_db = NoRows
    /\ store = <<>>
    /\ cohorts = NoRows
    /\ targets = <<>>
    /\ norms = PyNone
    /\ outliers = <<>>
    /\ raw = EmptyDict
    /\ inferred = IdleInference
    /\ render = PyNone
    /\ report = ""
    /\ dcall = <<>>
    /\ delta = <<>>
    /\ runs = <<>>

RestartUnchanged ==
    UNCHANGED <<raw, inferred, render, report, dcall, delta, targets, norms, outliers, runs, cohorts>>

TaskAt(c, step) ==
    /\ calls[c].handler = "_run_analysis_task"
    /\ calls[c].outcome = "pending"
    /\ calls[c].pos <= Len(JobSteps)
    /\ JobSteps[calls[c].pos] = step

SetJob(job_id, status, progress) ==
    [jobs EXCEPT ![job_id] = Dict([@.v EXCEPT !["status"] = Str(status), !["progress"] = PyInt(progress)])]

\* jobs[job_id]["status"] = "running"; progress 10; save_job(status="running", progress=10)
TaskMarkRunning(c) ==
    /\ TaskAt(c, "mark_running")
    /\ jobs' = SetJob(calls[c].job_id, "running", 10)
    /\ jobs_db' = save_job(jobs_db, calls[c].job_id, "running", 10, calls[c].company_url, PyNone, PyNone)
    /\ calls' = [calls EXCEPT ![c].pos = @ + 1]
    /\ UNCHANGED <<pc, store>>
    /\ RestartUnchanged

\* the collector calls: progress 20 .. 85 with a save_job each, then progress 90
TaskCollect(c) ==
    /\ TaskAt(c, "collect")
    /\ jobs' = SetJob(calls[c].job_id, "running", 90)
    /\ jobs_db' = save_job(jobs_db, calls[c].job_id, "running", 85, calls[c].company_url, PyNone, PyNone)
    /\ calls' = [calls EXCEPT ![c].pos = @ + 1]
    /\ UNCHANGED <<pc, store>>
    /\ RestartUnchanged

\* infer; progress 95; save_job(status="running", progress=95)
TaskInfer(c) ==
    /\ TaskAt(c, "infer")
    /\ jobs' = SetJob(calls[c].job_id, "running", 95)
    /\ jobs_db' = save_job(jobs_db, calls[c].job_id, "running", 95, calls[c].company_url, PyNone, PyNone)
    /\ calls' = [calls EXCEPT ![c].pos = @ + 1]
    /\ UNCHANGED <<pc, store>>
    /\ RestartUnchanged

\* jobs[job_id]["status"] = "complete"; progress 100; result = {profile, report_markdown}
TaskStoreResult(c) ==
    /\ TaskAt(c, "store_result")
    /\ jobs' = [jobs EXCEPT ![calls[c].job_id] = CompleteJob(@, StoredResult(ProfileOf(calls[c].company_url)))]
    /\ calls' = [calls EXCEPT ![c].pos = @ + 1]
    /\ UNCHANGED <<pc, jobs_db, store>>
    /\ RestartUnchanged

\* save_report(...), a failure of which is logged and ignored; the task returns
TaskSaveReport(c) ==
    /\ TaskAt(c, "save_report")
    /\ \E inserted \in BOOLEAN :
         store' = IF inserted
                  THEN save_report(store, calls[c].job_id, calls[c].company_url,
                                   infer(ProfileOf(calls[c].company_url)), Len(store))
                  ELSE store
    /\ calls' = [calls EXCEPT ![c] = [@ EXCEPT !.pos = @ + 1, !.outcome = "complete"]]
    /\ UNCHANGED <<pc, jobs, jobs_db>>
    /\ RestartUnchanged

\* an exception before the result is stored: the except branch marks the job failed
TaskFail(c) ==
    /\ \E step \in {"mark_running", "collect", "infer"} : TaskAt(c, step)
    /\ jobs' = [jobs EXCEPT ![calls[c].job_id] =
                   Dict([@.v EXCEPT !["status"] = Str("failed"), !["error"] = Str("Timeout")])]
    /\ jobs_db' = save_job(jobs_db, calls[c].job_id, "failed", Get(jobs[calls[c].job_id], "progress").v,
                           calls[c].company_url, PyNone, Str("Timeout"))
    /\ calls' = [calls EXCEPT ![c].outcome = "failed"]
    /\ UNCHANGED <<pc, store>>
    /\ RestartUnchanged

\* the server stops and starts again: the jobs dict starts empty, the tasks that
\* were running are gone, and startup_event recovers the pending rows
Restart ==
    /\ pc = "serving"
    /\ LET pending == load_pending_jobs(jobs_db)
       IN  /\ jobs' = [id \in DOMAIN pending |-> Recovered(pending[id])]
           /\ jobs_db' = [id \in DOMAIN jobs_db |->
                             IF id \in DOMAIN pending THEN Recovered(jobs_db[id]) ELSE jobs_db[id]]
    /\ calls' = [k \in 1..Len(calls) |->
                   IF calls[k].handler = "_run_analysis_task" /\ calls[k].outcome = "pending"
                   THEN [calls[k] EXCEPT !.outcome = "killed"]
                   ELSE calls[k]]
    /\ pc' = "restarted"
    /\ UNCHANGED store
    /\ RestartUnchanged

\* GET /jobs/{job_id}
GetJobStatus(c) ==
    /\ calls[c].handler = "get_job_status"
    /\ LET job == get_job_status(jobs, jobs_db, calls[c].job_id)
       IN  calls' = [calls EXCEPT ![c].returned = IF job = NotFound THEN "404" ELSE Get(job, "status").v]
    /\ UNCHANGED <<pc, jobs, jobs_db, store>>
    /\ RestartUnchanged

NextRestart ==
    \/ \E c \in 1..Len(calls) :
          \/ TaskMarkRunning(c) \/ TaskCollect(c) \/ TaskInfer(c) \/ TaskStoreResult(c)
          \/ TaskSaveReport(c) \/ TaskFail(c)
          \/ GetJobStatus(c)
    \/ Restart

SpecRestart == InitRestart /\ [][NextRestart]_vars

\* the task of the job has stored its result: the job reached 'complete'
ReachedComplete(job_id) ==
    \E c \in 1..Len(calls) :
        /\ calls[c].handler = "_run_analysis_task"
        /\ calls[c].job_id = job_id
        /\ calls[c].pos > 4
        /\ calls[c].outcome \in {"pending", "complete"}

\* C28: a job that reached 'complete' in _run_analysis_task is never reported
\* as 'failed' by get_job_status, also after a restart of the server.
C28_CompleteStays ==
    \A c \in 1..Len(calls) :
        calls[c].handler = "get_job_status" /\ ReachedComplete(calls[c].job_id)
            => calls[c].returned # "failed"

====
